---------------------------- MODULE Spec2Model ----------------------------
(***************************************************************************)
(* A model of wiremock's mock set and mock server state: the dispatch of   *)
(* a request over the mounted mocks (mock_set.rs, mounted_mock.rs), the    *)
(* scoped mocks and their guards (mock_server/bare_server.rs) and the      *)
(* request handler of the I/O layer (mock_server/hyper.rs).                *)
(***************************************************************************)
EXTENDS Integers, Sequences, FiniteSets, TLC

(***************************************************************************)
(* Bounds of the model.                                                    *)
(***************************************************************************)
MaxMocks == 2          \* registrations over one run
MaxRequests == 2       \* requests handled over one run
MaxResets == 1         \* calls of reset over one run
MaxSetBody == 2        \* calls of set_body_* on one template

\* Option<T>: None, or Some(x).
None == <<>>
Some(x) == <<x>>
InScope == "InScope"
OutOfScope == "OutOfScope"

\* The requests sent to the server: two requests that matchers can tell apart.
Requests == {"a", "b"}

(***************************************************************************)
(* Times: the expectation range of a mock.                                 *)
(***************************************************************************)
Exact(k) == [kind |-> "Exact", a |-> k, b |-> k]
Unbounded == [kind |-> "Unbounded", a |-> 0, b |-> 0]
Range(x, y) == [kind |-> "Range", a |-> x, b |-> y]
RangeFrom(x) == [kind |-> "RangeFrom", a |-> x, b |-> x]
RangeTo(y) == [kind |-> "RangeTo", a |-> 0, b |-> y]
RangeToInclusive(y) == [kind |-> "RangeToInclusive", a |-> 0, b |-> y]
RangeInclusive(x, y) == [kind |-> "RangeInclusive", a |-> x, b |-> y]

\* contains taking every range as half open.
contains_half_open(t, n_calls) ==
    CASE t.kind = "Exact" -> t.a = n_calls
      [] t.kind = "Unbounded" -> TRUE
      [] t.kind = "Range" -> t.a <= n_calls /\ n_calls < t.b
      [] t.kind = "RangeFrom" -> t.a <= n_calls
      [] t.kind = "RangeTo" -> n_calls < t.b
      [] t.kind = "RangeToInclusive" -> n_calls < t.b
      [] t.kind = "RangeInclusive" -> t.a <= n_calls /\ n_calls < t.b

contains(t, n_calls) ==
    CASE t.kind = "Exact" -> t.a = n_calls
      [] t.kind = "Unbounded" -> TRUE
      [] t.kind = "Range" -> t.a <= n_calls /\ n_calls < t.b
      [] t.kind = "RangeFrom" -> t.a <= n_calls
      [] t.kind = "RangeTo" -> n_calls < t.b
      [] t.kind = "RangeToInclusive" -> n_calls <= t.b
      [] t.kind = "RangeInclusive" -> t.a <= n_calls /\ n_calls <= t.b

(***************************************************************************)
(* Mock: the immutable specification of a mock.  A matcher is a predicate  *)
(* over requests, given by the set of requests it accepts; the responder   *)
(* yields a response template (status, body, delay) or an error.           *)
(***************************************************************************)
DefaultPriority == 5

Template(status, delay) ==
    [kind |-> "Ok", status |-> status, body |-> "", delay |-> delay]
ErrResponder == [kind |-> "Err", status |-> 0, body |-> "", delay |-> None]

NewMock(matchers, response, max, priority, range) ==
    [matchers |-> matchers, response |-> response, max_n_matches |-> max,
     priority |-> priority, name |-> None, expectation_range |-> range]

Mock_response_template(spec, request) == spec.response

\* MockBuilder::respond_with
MockBuilder_respond_with(matchers, responder) ==
    [matchers |-> matchers, response |-> responder, max_n_matches |-> None,
     priority |-> 5, name |-> None, expectation_range |-> Unbounded]

\* Mock::expect
Mock_expect(mock, r) == [mock EXCEPT !.expectation_range = r]

(***************************************************************************)
(* MountedMock: a mock with its runtime state.  notify is the shared       *)
(* (Notify, AtomicBool) pair, named by its index in notifiers.             *)
(***************************************************************************)
MountedMock_new(specification, position_in_set, nid) ==
    [specification |-> specification, n_matched_requests |-> 0,
     position_in_set |-> position_in_set, matched_requests |-> <<>>,
     notify |-> nid]

MountedMock_verify(m) ==
    [mock_name |-> m.specification.name,
     n_matched_requests |-> m.n_matched_requests,
     expectation_range |-> m.specification.expectation_range,
     position_in_set |-> m.position_in_set]

is_satisfied(report) ==
    contains(report.expectation_range, report.n_matched_requests)

AllMatch(matchers, request) ==
    \A i \in DOMAIN matchers : request \in matchers[i]

AtMax(m) ==
    Some(m.n_matched_requests) = m.specification.max_n_matches

\* Iterator::all asking every matcher, from matcher i on.
RECURSIVE Iterator_all_eager(_, _, _)
Iterator_all_eager(matchers, request, i) ==
    IF i > Len(matchers) THEN [result |-> TRUE, evaluated |-> <<>>]
    ELSE LET rest == Iterator_all_eager(matchers, request, i + 1)
         IN [result |-> (request \in matchers[i]) /\ rest.result,
             evaluated |-> <<i>> \o rest.evaluated]

\* matchers.iter().all(|matcher| matcher.matches(request)) from matcher i
\* on: the result, and the matchers whose matches was called, in the order
\* of the calls.
RECURSIVE Iterator_all(_, _, _)
Iterator_all(matchers, request, i) ==
    IF i > Len(matchers) THEN [result |-> TRUE, evaluated |-> <<>>]
    ELSE IF request \in matchers[i]
    THEN LET rest == Iterator_all(matchers, request, i + 1)
         IN [result |-> rest.result, evaluated |-> <<i>> \o rest.evaluated]
    ELSE [result |-> FALSE, evaluated |-> <<i>>]

\* matches: the mock after the call, the result, and whether the
\* satisfaction flag is stored and the waiters are notified.
MountedMock_matches_nocap(m, request) ==
    LET matched == AllMatch(m.specification.matchers, request)
        m2 == [m EXCEPT !.n_matched_requests = @ + 1,
                        !.matched_requests = Append(@, request)]
    IN IF matched
       THEN [mock |-> m2, matched |-> TRUE,
             satisfied |-> is_satisfied(MountedMock_verify(m2))]
       ELSE [mock |-> m, matched |-> FALSE, satisfied |-> FALSE]

MountedMock_matches_always(m, request) ==
    LET m2 == [m EXCEPT !.n_matched_requests = @ + 1,
                        !.matched_requests = Append(@, request)]
    IN IF AtMax(m)
       THEN [mock |-> m, matched |-> FALSE, satisfied |-> FALSE]
       ELSE [mock |-> m2,
             matched |-> AllMatch(m.specification.matchers, request),
             satisfied |-> is_satisfied(MountedMock_verify(m2))]

\* evaluated: the matchers asked, in the order they were asked.
MountedMock_matches(m, request) ==
    IF AtMax(m)
    THEN [mock |-> m, matched |-> FALSE, satisfied |-> FALSE,
          evaluated |-> <<>>]
    ELSE LET all == Iterator_all(m.specification.matchers, request, 1)
             m2 == [m EXCEPT !.n_matched_requests = @ + 1,
                             !.matched_requests = Append(@, request)]
         IN IF all.result
            THEN [mock |-> m2, matched |-> TRUE,
                  satisfied |-> is_satisfied(MountedMock_verify(m2)),
                  evaluated |-> all.evaluated]
            ELSE [mock |-> m, matched |-> FALSE, satisfied |-> FALSE,
                  evaluated |-> all.evaluated]

(***************************************************************************)
(* MountedMockSet: the vector of (MountedMock, MountedMockState) pairs.    *)
(***************************************************************************)
Priority(e) == e[1].specification.priority

\* Vec::sort_by_key is a stable sort: an entry is inserted after every
\* entry whose key is not greater than its own.
RECURSIVE InsertByKey(_, _)
InsertByKey(sorted, e) ==
    IF sorted = <<>> THEN <<e>>
    ELSE IF Priority(Head(sorted)) <= Priority(e)
         THEN <<Head(sorted)>> \o InsertByKey(Tail(sorted), e)
         ELSE <<e>> \o sorted

RECURSIVE InsertByKeyUnstable(_, _)
InsertByKeyUnstable(sorted, e) ==
    IF sorted = <<>> THEN <<e>>
    ELSE IF Priority(Head(sorted)) < Priority(e)
         THEN <<Head(sorted)>> \o InsertByKeyUnstable(Tail(sorted), e)
         ELSE <<e>> \o sorted

RECURSIVE SortFrom(_, _)
SortFrom(sorted, rest) ==
    IF rest = <<>> THEN sorted
    ELSE SortFrom(InsertByKey(sorted, Head(rest)), Tail(rest))

RECURSIVE SortFromUnstable(_, _)
SortFromUnstable(sorted, rest) ==
    IF rest = <<>> THEN sorted
    ELSE SortFromUnstable(InsertByKeyUnstable(sorted, Head(rest)), Tail(rest))

sort_by_key_unstable(ms) == SortFromUnstable(<<>>, ms)

sort_by_key(ms) == SortFrom(<<>>, ms)

\* The loop of handle_request from entry i on: the vector after the calls
\* of matches, the index of the first entry that is not OutOfScope and whose
\* matches returned true (0 when there is none), and whether that match
\* satisfied the expectation.
RECURSIVE ScanAnyScope(_, _, _)
ScanAnyScope(ms, i, request) ==
    IF i > Len(ms)
    THEN [mocks |-> ms, winner |-> 0, satisfied |-> FALSE, asked |-> <<>>]
    ELSE LET r == MountedMock_matches(ms[i][1], request)
             ms2 == [ms EXCEPT ![i] = <<r.mock, ms[i][2]>>]
         IN IF r.matched
            THEN [mocks |-> ms2, winner |-> i, satisfied |-> r.satisfied,
                  asked |-> <<i>>]
            ELSE LET rest == ScanAnyScope(ms2, i + 1, request)
                 IN [rest EXCEPT !.asked = <<i>> \o @]

\* The loop of handle_request without its break: the entries after the
\* first match are asked as well.
RECURSIVE ScanNoBreak(_, _, _)
ScanNoBreak(ms, i, request) ==
    IF i > Len(ms)
    THEN [mocks |-> ms, winner |-> 0, satisfied |-> FALSE, asked |-> <<>>]
    ELSE IF ms[i][2] = OutOfScope THEN ScanNoBreak(ms, i + 1, request)
    ELSE LET r == MountedMock_matches(ms[i][1], request)
             ms2 == [ms EXCEPT ![i] = <<r.mock, ms[i][2]>>]
             rest == ScanNoBreak(ms2, i + 1, request)
         IN IF r.matched
            THEN [mocks |-> rest.mocks, winner |-> i,
                  satisfied |-> r.satisfied, asked |-> <<i>> \o rest.asked]
            ELSE [rest EXCEPT !.asked = <<i>> \o @]

\* asked: the entries whose matches was called, in the order of the calls.
RECURSIVE Scan(_, _, _)
Scan(ms, i, request) ==
    IF i > Len(ms)
    THEN [mocks |-> ms, winner |-> 0, satisfied |-> FALSE, asked |-> <<>>]
    ELSE IF ms[i][2] = OutOfScope THEN Scan(ms, i + 1, request)
    ELSE LET r == MountedMock_matches(ms[i][1], request)
             ms2 == [ms EXCEPT ![i] = <<r.mock, ms[i][2]>>]
         IN IF r.matched
            THEN [mocks |-> ms2, winner |-> i, satisfied |-> r.satisfied,
                  asked |-> <<i>>]
            ELSE LET rest == Scan(ms2, i + 1, request)
                 IN [rest EXCEPT !.asked = <<i>> \o @]

generate_response(template, by) ==
    [kind |-> "Ok", status |-> template.status, body |-> template.body,
     by |-> by]

NoResponse == [kind |-> "None", status |-> 0, body |-> "", by |-> 0]

not_found_response ==
    [kind |-> "Ok", status |-> 404, body |-> "", by |-> 0]

\* handle_request answering 404 when the responder of the winning mock
\* returns an error.
MountedMockSet_handle_request_err_as_404(ms, request) ==
    LET sorted == sort_by_key(ms)
        s == Scan(sorted, 1, request)
    IN IF s.winner = 0
       THEN [mocks |-> s.mocks, response |-> not_found_response,
             delay |-> None, satisfied |-> 0]
       ELSE LET mock == s.mocks[s.winner][1]
                t == Mock_response_template(mock.specification, request)
            IN [mocks |-> s.mocks,
                response |-> IF t.kind = "Ok"
                             THEN generate_response(t, mock.notify)
                             ELSE not_found_response,
                delay |-> t.delay,
                satisfied |-> IF s.satisfied THEN mock.notify ELSE 0]

\* handle_request: the vector after the call, the result (the response and
\* the delay, or the error), and the notifier to raise (0 when the match
\* did not satisfy the expectation).  The field by of a response names the
\* mock whose responder produced it, by its notifier.
MountedMockSet_handle_request(ms, request) ==
    LET sorted == sort_by_key(ms)
        s == Scan(sorted, 1, request)
    IN IF s.winner = 0
       THEN [mocks |-> s.mocks, response |-> not_found_response,
             delay |-> None, satisfied |-> 0]
       ELSE LET mock == s.mocks[s.winner][1]
                t == Mock_response_template(mock.specification, request)
            IN [mocks |-> s.mocks,
                response |-> IF t.kind = "Ok"
                             THEN generate_response(t, mock.notify)
                             ELSE [kind |-> "Err", status |-> 0, body |-> "",
                                   by |-> mock.notify],
                delay |-> t.delay,
                satisfied |-> IF s.satisfied THEN mock.notify ELSE 0]

MountedMockSet_register(ms, gen, spec, nid) ==
    LET n_registered_mocks == Len(ms)
        active_mock == MountedMock_new(spec, n_registered_mocks, nid)
        pushed == Append(ms, <<active_mock, InScope>>)
    IN [mocks |-> pushed,
        mock_id |-> [index |-> Len(pushed) - 1, generation |-> gen]]

\* Index<MockId>: the entry at the vector index of the id; "panic" when the
\* id is of another generation, "out_of_bounds" (the panic of the vector)
\* when the vector has no such index.
Index(ms, gen, mock_id) ==
    IF mock_id.generation # gen THEN "panic"
    ELSE IF mock_id.index + 1 \notin DOMAIN ms THEN "out_of_bounds"
    ELSE ms[mock_id.index + 1]

\* generation: u16
U16 == 65536

\* reset: the vector and the generation after the call.  self.generation
\* += 1 on the greatest u16 panics in a build with overflow checks, after
\* the vector was emptied, and wraps to 0 in a build without them.
MountedMockSet_reset_keep(ms, gen, overflow_checks) ==
    [mocks |-> ms, generation |-> gen + 1, panic |-> FALSE]

MountedMockSet_reset(ms, gen, overflow_checks) ==
    IF gen + 1 < U16
    THEN [mocks |-> <<>>, generation |-> gen + 1, panic |-> FALSE]
    ELSE IF overflow_checks
         THEN [mocks |-> <<>>, generation |-> gen, panic |-> TRUE]
         ELSE [mocks |-> <<>>, generation |-> (gen + 1) % U16,
               panic |-> FALSE]

\* deactivate taking the entry out of the vector.
MountedMockSet_deactivate_remove(ms, mock_id) ==
    SubSeq(ms, 1, mock_id.index) \o SubSeq(ms, mock_id.index + 2, Len(ms))

MountedMockSet_deactivate(ms, mock_id) ==
    [ms EXCEPT ![mock_id.index + 1] = <<@[1], OutOfScope>>]

MountedMockSet_verify(ms, gen, mock_id) ==
    MountedMock_verify(Index(ms, gen, mock_id)[1])

\* verify_all: Success, or Failure with the reports that are not satisfied
\* of the mocks in scope, in the order of the vector.
IsInScope(e) == e[2] = InScope

IsFailed(report) == ~is_satisfied(report)

Success == [kind |-> "Success", reports |-> <<>>]

Failure(failed_verifications) ==
    [kind |-> "Failure", reports |-> failed_verifications]

MountedMockSet_verify_all_every_report(ms) ==
    LET in_scope == SelectSeq(ms, IsInScope)
        reports == [i \in DOMAIN in_scope |->
                       MountedMock_verify(in_scope[i][1])]
    IN IF reports = <<>> THEN Success ELSE Failure(reports)

MountedMockSet_verify_all(ms) ==
    LET in_scope == SelectSeq(ms, IsInScope)
        reports == [i \in DOMAIN in_scope |->
                       MountedMock_verify(in_scope[i][1])]
        failed_verifications == SelectSeq(reports, IsFailed)
    IN IF failed_verifications = <<>> THEN Success
       ELSE Failure(failed_verifications)


(***************************************************************************)
(* MockGuard: the handle of a scoped mock.  drop gives the vector after    *)
(* the drop and what the drop did: "ok" (verified and deactivated),        *)
(* "panic" (verification failed), "logged" (verification failed while the  *)
(* thread was unwinding), "misuse" (the id is of another generation),       *)
(* "out_of_bounds" (the vector has no entry at the index of the id).       *)
(***************************************************************************)
MockGuard_drop_keep(ms, gen, guard, unwinding) ==
    IF Index(ms, gen, guard.mock_id) = "panic"
    THEN [mocks |-> ms, outcome |-> "misuse"]
    ELSE IF ~is_satisfied(MountedMockSet_verify(ms, gen, guard.mock_id))
         THEN [mocks |-> ms,
               outcome |-> IF unwinding THEN "logged" ELSE "panic"]
         ELSE [mocks |-> ms, outcome |-> "ok"]

MockGuard_drop(ms, gen, guard, unwinding) ==
    IF Index(ms, gen, guard.mock_id) = "panic"
    THEN [mocks |-> ms, outcome |-> "misuse"]
    ELSE IF Index(ms, gen, guard.mock_id) = "out_of_bounds"
    THEN [mocks |-> ms, outcome |-> "out_of_bounds"]
    ELSE IF ~is_satisfied(MountedMockSet_verify(ms, gen, guard.mock_id))
         THEN [mocks |-> ms,
               outcome |-> IF unwinding THEN "logged" ELSE "panic"]
         ELSE [mocks |-> MountedMockSet_deactivate(ms, guard.mock_id),
               outcome |-> "ok"]

\* MockGuard::received_requests: the requests kept by the entry that the
\* guard's id denotes.
MockGuard_received_requests(ms, gen, guard) ==
    LET entry == Index(ms, gen, guard.mock_id)
    IN IF entry = "panic" THEN "misuse"
       ELSE IF entry = "out_of_bounds" THEN "out_of_bounds"
       ELSE entry[1].matched_requests

(***************************************************************************)
(* The message of a failed verification.  A formatted text is kept as the  *)
(* format string with the values that fill it.                             *)
(***************************************************************************)
\* impl Display for Times
Times_fmt(t) ==
    CASE t.kind = "Exact" -> [text |-> "== {}", args |-> <<t.a>>]
      [] t.kind = "Unbounded" -> [text |-> "0 <= x", args |-> <<>>]
      [] t.kind = "Range" -> [text |-> "{} <= x < {}", args |-> <<t.a, t.b>>]
      [] t.kind = "RangeFrom" -> [text |-> "{} <= x", args |-> <<t.a>>]
      [] t.kind = "RangeTo" -> [text |-> "0 <= x < {}", args |-> <<t.b>>]
      [] t.kind = "RangeToInclusive" ->
            [text |-> "0 <= x <= {}", args |-> <<t.b>>]
      [] t.kind = "RangeInclusive" ->
            [text |-> "{} <= x <= {}", args |-> <<t.a, t.b>>]

NamedFormat ==
    "{}.\n\tExpected range of matching incoming requests: {}\n\tNumber of matched incoming requests: {}"

UnnamedFormat ==
    "Mock #{}.\n\tExpected range of matching incoming requests: {}\n\tNumber of matched incoming requests: {}"

\* error_message naming every mock by its position.
VerificationReport_error_message_by_position(report) ==
    [text |-> UnnamedFormat,
     args |-> <<report.position_in_set,
                Times_fmt(report.expectation_range),
                report.n_matched_requests>>]

\* VerificationReport::error_message
VerificationReport_error_message(report) ==
    IF report.mock_name # None
    THEN [text |-> NamedFormat,
          args |-> <<report.mock_name[1],
                     Times_fmt(report.expectation_range),
                     report.n_matched_requests>>]
    ELSE [text |-> UnnamedFormat,
          args |-> <<report.position_in_set,
                     Times_fmt(report.expectation_range),
                     report.n_matched_requests>>]

\* received_requests_message of MockServer::verify: the fold over the
\* enumerated requests writes "- Request #{index + 1}" and the request.
received_requests_message(received) ==
    IF received = None
    THEN [text |-> "Enable request recording on the mock server to get the list of incoming requests as part of the panic message.",
          requests |-> <<>>]
    ELSE IF received[1] = <<>>
    THEN [text |-> "The server did not receive any request.",
          requests |-> <<>>]
    ELSE [text |-> "Received requests:\n",
          requests |-> [index \in DOMAIN received[1] |->
                           [text |-> "- Request #{}\n\t",
                            args |-> <<(index - 1) + 1>>,
                            request |-> received[1][index]]]]

\* The error_message of MockServer::verify when verify fails.
MockServer_verify_error_message(failed_verifications, received) ==
    [text |-> "Verifications failed:\n{verifications_errors}\n{received_requests_message}",
     verifications_errors |->
         [k \in DOMAIN failed_verifications |->
             [text |-> "- {}\n",
              args |-> <<VerificationReport_error_message(
                            failed_verifications[k])>>]],
     received_requests_message |-> received_requests_message(received)]

(***************************************************************************)
(* MockServer::verify, which the drop of the MockServer runs as well: "ok" *)
(* (every expectation met), "panic", or "logged" (a failure found while    *)
(* the thread was unwinding).                                              *)
(***************************************************************************)
MockServer_verify_panic_twice(ms, unwinding) ==
    IF MountedMockSet_verify_all(ms) = Success THEN "ok" ELSE "panic"

MockServer_verify(ms, unwinding) ==
    IF MountedMockSet_verify_all(ms) = Success THEN "ok"
    ELSE IF unwinding THEN "logged" ELSE "panic"

(***************************************************************************)
(* ResponseTemplate as its builder leaves it.  A body is the sequence of   *)
(* its bytes, one element for each piece of text; body_fn is kept as the   *)
(* body and the length it yields.                                          *)
(***************************************************************************)
\* ResponseTemplate::new
ResponseTemplate_new(s) ==
    [status_code |-> s, headers |-> <<>>, mime |-> None, body_fn |-> None,
     delay |-> None]

\* wrap_body_in_arc_fn
wrap_body_in_arc_fn(body) == [body |-> body, length |-> Some(Len(body))]

\* String::into_bytes
into_bytes(text) == <<text>>

\* serde_json::to_vec of a string: the string between double quotes.
to_vec(text) == <<"\"", text, "\"">>

\* ResponseTemplate::set_body_bytes
ResponseTemplate_set_body_bytes(t, body) ==
    [t EXCEPT !.body_fn = Some(wrap_body_in_arc_fn(body))]

\* ResponseTemplate::set_body_json
ResponseTemplate_set_body_json(t, body) ==
    [t EXCEPT !.body_fn = Some(wrap_body_in_arc_fn(to_vec(body))),
              !.mime = Some("application/json")]

\* ResponseTemplate::set_body_string
ResponseTemplate_set_body_string(t, body) ==
    [t EXCEPT !.body_fn = Some(wrap_body_in_arc_fn(into_bytes(body))),
              !.mime = Some("text/plain")]

\* ResponseTemplate::set_body_raw
ResponseTemplate_set_body_raw(t, body, mime) ==
    [t EXCEPT !.body_fn = Some(wrap_body_in_arc_fn(body)),
              !.mime = Some(mime)]

\* ResponseTemplate::generate_response: the response with its status and,
\* when the template has a media type, its Content-Type; the body and its
\* length.
ResponseTemplate_generate_response(t) ==
    [status |-> t.status_code,
     content_type |-> t.mime,
     body |-> IF t.body_fn = None THEN None ELSE Some(t.body_fn[1].body),
     length |-> IF t.body_fn = None THEN None ELSE t.body_fn[1].length]

\* The texts and media types a test gives to the set_body_* calls.
Texts == {"x", "y"}
MediaTypes == {"text/csv", "application/json"}

\* No call of set_body_* has been made on the template: built is the
\* template, calls the calls made on it so far.
NewTemplate == [built |-> ResponseTemplate_new(200), calls |-> <<>>]

(***************************************************************************)
(* The state of one server, of the test that uses it and of the tasks that *)
(* run against it.                                                         *)
(***************************************************************************)
VARIABLES
    mocks,              \* MountedMockSet.mocks
    generation,         \* MountedMockSet.generation
    received_requests,  \* MockServerState.received_requests
    notifiers,          \* the (Notify, AtomicBool) pairs ever allocated
    guards,             \* the MockGuards handed out
    panicking,          \* std::thread::panicking() of the test thread
    server,             \* the MockServer: running, or how its drop ended
    pool,               \* MOCK_SERVER_POOL and the handles the tests hold
    net,                \* run_server: the accept loop and its connections
    template,           \* the ResponseTemplate a test is building
    last,               \* the request last handled and what was answered
    handled,            \* number of requests handled so far
    wins,               \* per mock of the set: requests it answered
    lock,               \* the RwLock around MockServerState
    queue,              \* the tasks waiting for the lock, first come first
    handlers,           \* the tasks of HyperRequestHandler::call
    test,               \* the operation the test task has in progress
    waiters,            \* the calls of MockGuard::wait_until_satisfied
    brought             \* notifiers of the mocks a request has satisfied

envVars == <<pool, net, template>>

setVars == <<mocks, generation, received_requests, notifiers, guards,
             panicking, server, envVars, last, handled, wins>>

taskVars == <<lock, queue, handlers, test, waiters, brought>>

vars == <<setVars, taskVars>>

\* The tests that borrow servers from the pool.
Borrowers == {"t1", "t2"}

\* No server has been taken from the pool: servers are the BareMockServers
\* the pool has created, idle the queue of those it can hand out, handle the
\* server each test's MockServer wraps (0: none), guards the MockGuards of
\* the tests, started the number of calls of MockServer::start, allocated
\* the number of notifiers created, handled the number of requests handled
\* and answer the answer to the last of them, acted the test that made the
\* last call and the server it reached.
EmptyPool ==
    [servers |-> <<>>, idle |-> <<>>, handle |-> [t \in Borrowers |-> 0],
     guards |-> <<>>, started |-> 0, allocated |-> 0, handled |-> 0,
     answer |-> [kind |-> "None", status |-> 0, body |-> "", by |-> 0],
     acted |-> [by |-> "", server |-> 0], wire |-> {}]

\* The connections a server serves at once.
Conns == <<"c1", "c2">>

\* run_server before the first connection: accept is the state of the accept
\* loop and cause what made it stop, backlog the connections the listener
\* has not accepted yet, conns the per-connection tasks ("none": no task,
\* "open": no exchange in flight, "busy": an exchange in flight, "closing"
\* and "busy_closing": the same after graceful_shutdown), runtime the tokio
\* runtime of the server thread.
Listening ==
    [accept |-> "running", cause |-> "", backlog |-> 0,
     conns |-> [c \in {Conns[i] : i \in DOMAIN Conns} |-> "none"],
     runtime |-> "alive"]

NewNotifier == [flag |-> FALSE, calls |-> 0]

\* The tasks: two connections served at once, the test, two waiting calls.
\* The tasks that serve connections and the tasks that wait on guards, in
\* the order in which they are put to work.
HandlerOrder == <<"h1", "h2">>
WaiterOrder == <<"w1", "w2">>
Handlers == {HandlerOrder[i] : i \in DOMAIN HandlerOrder}
Waiters == {WaiterOrder[i] : i \in DOMAIN WaiterOrder}
FirstIdle(order, tasks) ==
    LET i == CHOOSE i \in DOMAIN order :
                 /\ tasks[order[i]].pc = 0
                 /\ \A j \in 1..(i - 1) : tasks[order[j]].pc # 0
    IN order[i]
NoOne == ""

\* The mocks a test mounts: with one matcher or two, capped or not, of the
\* highest or of the default priority.
MatcherLists == {<<{"a"}>>, <<{"a", "b"}>>}
Caps == {None, Some(1)}
Priorities == {1, DefaultPriority}

Catalog ==
    {NewMock(ms, Template(200, None), max, p, Unbounded) :
        ms \in MatcherLists, max \in Caps, p \in Priorities}

\* The scoped mocks a test mounts.
ScopedCatalog ==
    {NewMock(<<{"a", "b"}>>, Template(200, None), None, p, Unbounded) :
        p \in Priorities}

\* The mocks of a test of the scoped mocks: they accept request "a" alone
\* and differ in priority and in expectation.
ExpectCatalog ==
    {NewMock(<<{"a"}>>, Template(200, None), None, p, range) :
        p \in Priorities, range \in {Unbounded, Exact(1)}}

\* The mocks of a test of slow responses: a capped mock that answers after
\* a delay and a mock that answers at once.
DelayCatalog ==
    {NewMock(<<{"a"}>>, Template(200, Some(1)), Some(1), 1, Unbounded),
     NewMock(<<{"a", "b"}>>, Template(201, None), None, DefaultPriority,
             Unbounded)}

\* The mocks of a test of expectations: a mock built without expect and
\* the same mock with an expectation of each shape.
TimesShapes ==
    {Exact(1), Unbounded, Range(1, 2), RangeInclusive(1, 2), RangeFrom(1),
     RangeTo(1), RangeToInclusive(1)}

WithoutExpect == MockBuilder_respond_with(<<{"a"}>>, Template(200, None))

TimesCatalog ==
    {WithoutExpect} \cup {Mock_expect(WithoutExpect, r) : r \in TimesShapes}

\* The mocks of a test of matching: two matchers, of which the first or the
\* second rejects request "b", capped at one match or not.
MatchCatalog ==
    {NewMock(ms, Template(200, None), max, DefaultPriority, Exact(1)) :
        ms \in {<<{"a", "b"}, {"a"}>>, <<{"a"}, {"a", "b"}>>},
        max \in Caps}

\* The scoped mocks of a test that drops their guards while requests are
\* served: one is satisfied at any count, one by exactly one match; their
\* responses are delayed.
GuardCatalog ==
    {NewMock(<<{"a"}>>, Template(200, Some(1)), None, p, range) :
        p \in Priorities, range \in {Unbounded, Exact(1)}}

\* The scoped mock of a test whose thread runs a second task: it expects
\* one match and its response is delayed.
ThreadCatalog ==
    {NewMock(<<{"a"}>>, Template(200, Some(1)), None, DefaultPriority,
             Exact(1))}

\* The mocks of a test that reads the message of a failed verification: a
\* mock without a name and a mock with a name, which answers first.
MessageCatalog ==
    {NewMock(<<{"a"}>>, Template(200, None), None, DefaultPriority,
             Exact(1)),
     [NewMock(<<{"a"}>>, Template(200, None), None, 1, Exact(1))
         EXCEPT !.name = Some("named")]}

\* The mocks of a test that resets its server: one that expects one request
\* "a" and answers first, one that fails every request with an error.
ResetCatalog ==
    {NewMock(<<{"a"}>>, Template(200, None), None, 1, Exact(1)),
     NewMock(<<{"a", "b"}>>, ErrResponder, None, DefaultPriority,
             Unbounded)}

\* The mock of the tests that borrow servers from the pool.
PoolCatalog ==
    {NewMock(<<{"a"}>>, Template(200, None), None, DefaultPriority,
             Exact(1))}

\* A scoped mock that is satisfied before its first match and by its first
\* match, and no longer by its second.
ZeroCatalog ==
    {NewMock(<<{"a"}>>, Template(200, Some(1)), None, DefaultPriority,
             RangeToInclusive(1))}

\* The scoped mock of a test that waits for it: satisfied by its first match
\* and by its second, after which it is exhausted.
WaitCatalog ==
    {NewMock(<<{"a"}>>, Template(200, Some(1)), Some(2), DefaultPriority,
             RangeInclusive(1, 2))}

\* slept: the delay of the response has been awaited.
IdleHandler ==
    [pc |-> 0, req |-> "", response |-> NoResponse, delay |-> None,
     satisfied |-> 0, slept |-> FALSE]
IdleTest == [pc |-> "idle", op |-> "", spec |-> None, guard |-> 0]
\* n_at_call is the match count of the guard's mock when the call was made,
\* for the calls whose count is observed.
IdleWaiter ==
    [pc |-> 0, notify |-> 0, seen |-> 0, notified |-> "none",
     n_at_call |-> 0]

\* BareMockServer::start, with request recording enabled or disabled.
Start(recording) ==
    /\ mocks = <<>>
    /\ generation = 0
    /\ received_requests = IF recording THEN Some(<<>>) ELSE None
    /\ notifiers = <<>>
    /\ guards = <<>>
    /\ panicking = FALSE
    /\ server = "running"
    /\ pool = EmptyPool
    /\ net = Listening
    /\ template = NewTemplate
    /\ last = [req |-> "", response |-> NoResponse, delay |-> None]
    /\ handled = 0
    /\ wins = <<>>
    /\ lock = [writer |-> NoOne, readers |-> {}]
    /\ queue = <<>>
    /\ handlers = [h \in Handlers |-> IdleHandler]
    /\ test = IdleTest
    /\ waiters = [w \in Waiters |-> IdleWaiter]
    /\ brought = {}

Init == Start(TRUE)

\* A server built by MockServerBuilder, with or without request recording.
InitBuilt == \E recording \in BOOLEAN : Start(recording)

\* No task holds the lock or waits for it.
LockFree == lock.writer = NoOne /\ lock.readers = {} /\ queue = <<>>

(***************************************************************************)
(* What the operations do to the server state once they hold the lock.     *)
(***************************************************************************)
\* MountedMockSet::register under BareMockServer::register (scoped: under
\* register_as_scoped, which keeps the notifier and the id in a MockGuard).
DoRegister(spec, scoped) ==
    LET nid == Len(notifiers) + 1
        r == MountedMockSet_register(mocks, generation, spec, nid)
    IN /\ mocks' = r.mocks
       /\ notifiers' = Append(notifiers, NewNotifier)
       /\ wins' = Append(wins, 0)
       /\ guards' = IF scoped
                    THEN Append(guards, [mock_id |-> r.mock_id,
                                         notify |-> nid, dropped |-> FALSE,
                                         outcome |-> "alive"])
                    ELSE guards
       /\ UNCHANGED <<generation, received_requests, panicking, server,
                      envVars, last, handled>>

\* MockServerState::handle_request recording only the requests that a mock
\* answers.
MockServerState_handle_request_matched_only(request, r) ==
    /\ received_requests' = IF received_requests = None \/ r.response.by = 0
                            THEN received_requests
                            ELSE Some(Append(received_requests[1], request))
    /\ mocks' = r.mocks
    /\ last' = [req |-> request, response |-> r.response, delay |-> r.delay]
    /\ handled' = handled + 1
    /\ wins' = IF r.response.by = 0 THEN wins
               ELSE LET p == CHOOSE i \in DOMAIN mocks :
                                mocks[i][1].notify = r.response.by
                    IN [wins EXCEPT ![mocks[p][1].position_in_set + 1] =
                           @ + 1]
    /\ UNCHANGED <<generation, guards, panicking, server, envVars>>

\* MockServerState::handle_request up to the match: r is the result of
\* MountedMockSet::handle_request.
MockServerState_handle_request(request, r) ==
    /\ received_requests' = IF received_requests = None THEN None
                            ELSE Some(Append(received_requests[1], request))
    /\ mocks' = r.mocks
    /\ last' = [req |-> request, response |-> r.response, delay |-> r.delay]
    /\ handled' = handled + 1
    /\ wins' = IF r.response.by = 0 THEN wins
               ELSE LET p == CHOOSE i \in DOMAIN mocks :
                                mocks[i][1].notify = r.response.by
                    IN [wins EXCEPT ![mocks[p][1].position_in_set + 1] =
                           @ + 1]
    /\ UNCHANGED <<generation, guards, panicking, server, envVars>>

\* BareMockServer::reset leaving an empty list whether or not the server
\* records requests.
DoReset_empty_list(overflow_checks) ==
    LET r == MountedMockSet_reset(mocks, generation, overflow_checks)
    IN /\ mocks' = r.mocks
       /\ generation' = r.generation
       /\ received_requests' =
              IF r.panic THEN received_requests ELSE Some(<<>>)
       /\ wins' = <<>>
       /\ panicking' = (panicking \/ r.panic)
       /\ UNCHANGED <<notifiers, guards, server, envVars, last, handled>>

\* BareMockServer::reset
DoReset(overflow_checks) ==
    LET r == MountedMockSet_reset(mocks, generation, overflow_checks)
    IN /\ mocks' = r.mocks
       /\ generation' = r.generation
       /\ received_requests' =
              IF r.panic \/ received_requests = None THEN received_requests
              ELSE Some(<<>>)
       /\ wins' = <<>>
       /\ panicking' = (panicking \/ r.panic)
       /\ UNCHANGED <<notifiers, guards, server, envVars, last, handled>>

\* impl Drop for MockGuard
DoDrop(g) ==
    LET r == MockGuard_drop(mocks, generation, guards[g], panicking)
    IN /\ mocks' = r.mocks
       /\ guards' = [guards EXCEPT ![g] =
                        [@ EXCEPT !.dropped = TRUE, !.outcome = r.outcome]]
       /\ panicking' = (panicking \/ r.outcome \in {"panic", "misuse",
                                                   "out_of_bounds"})
       /\ UNCHANGED <<generation, received_requests, notifiers, server,
                      envVars,
                      last, handled, wins>>

(***************************************************************************)
(* The pool of servers behind MockServer::start.  A BareMockServer is kept *)
(* as a record of its mock set and its recorded requests.                  *)
(***************************************************************************)
\* MockServerPoolManager::create: build_bare with the default configuration.
MockServerPoolManager_create ==
    [mocks |-> <<>>, generation |-> 0, received_requests |-> Some(<<>>)]

\* BareMockServer::reset leaving the recorded requests in place.
BareMockServer_reset_keep_requests(s, overflow_checks) ==
    LET r == MountedMockSet_reset(s.mocks, s.generation, overflow_checks)
    IN [s EXCEPT !.mocks = r.mocks, !.generation = r.generation]

\* BareMockServer::reset
BareMockServer_reset(s, overflow_checks) ==
    LET r == MountedMockSet_reset(s.mocks, s.generation, overflow_checks)
    IN [s EXCEPT !.mocks = r.mocks, !.generation = r.generation,
                 !.received_requests =
                     IF r.panic \/ @ = None THEN @ ELSE Some(<<>>)]

\* MockServerPoolManager::recycle leaving the server as it was returned.
MockServerPoolManager_recycle_as_is(s, overflow_checks) == s

\* MockServerPoolManager::recycle
MockServerPoolManager_recycle(s, overflow_checks) ==
    BareMockServer_reset(s, overflow_checks)

\* Pool::get handing out the first idle server and leaving it in the queue.
Pool_get_keep_idle(p, overflow_checks) ==
    IF p.idle # <<>>
    THEN LET id == Head(p.idle)
         IN [servers |-> [p.servers EXCEPT ![id] =
                             MockServerPoolManager_recycle(@,
                                                           overflow_checks)],
             idle |-> p.idle, object |-> id]
    ELSE [servers |-> Append(p.servers, MockServerPoolManager_create),
          idle |-> p.idle, object |-> Len(p.servers) + 1]

\* Pool::get: the first idle server, recycled, or else a new server.
Pool_get(p, overflow_checks) ==
    IF p.idle # <<>>
    THEN LET id == Head(p.idle)
         IN [servers |-> [p.servers EXCEPT ![id] =
                             MockServerPoolManager_recycle(@,
                                                           overflow_checks)],
             idle |-> Tail(p.idle), object |-> id]
    ELSE [servers |-> Append(p.servers, MockServerPoolManager_create),
          idle |-> p.idle, object |-> Len(p.servers) + 1]

\* BareMockServer::register: the server and the id of the new mock, whose
\* notifier is nid.
BareMockServer_register(s, spec, nid) ==
    LET r == MountedMockSet_register(s.mocks, s.generation, spec, nid)
    IN [server |-> [s EXCEPT !.mocks = r.mocks], mock_id |-> r.mock_id]

\* MockServerState::handle_request on a server of the pool: the server and
\* the answer.
BareMockServer_handle_request(s, request) ==
    LET r == MountedMockSet_handle_request(s.mocks, request)
    IN [server |-> [s EXCEPT !.received_requests =
                                 IF @ = None THEN None
                                 ELSE Some(Append(@[1], request)),
                             !.mocks = r.mocks],
        answer |-> r.response]

Acted(t, id) == [by |-> t, server |-> id]

PoolStep(p) ==
    /\ pool' = p
    /\ UNCHANGED <<mocks, generation, received_requests, notifiers, guards,
                   panicking, server, net, template, last, handled, wins>>
    /\ UNCHANGED taskVars

\* MockServer::start; the test t1 is the first to start a server.
MockServer_start(t) ==
    /\ pool.handle[t] = 0
    /\ pool.servers = <<>> => t = "t1"
    /\ pool.started < MaxResets + 2
    /\ \E overflow_checks \in BOOLEAN :
          LET got == Pool_get(pool, overflow_checks)
          IN PoolStep([pool EXCEPT
                 !.servers = got.servers,
                 !.idle = got.idle,
                 !.handle[t] = got.object,
                 !.started = @ + 1,
                 !.acted = Acted(t, got.object)])

\* MockServer::register and register_as_scoped of the test t.
MockServer_register(t, spec, scoped) ==
    LET id == pool.handle[t]
        r == BareMockServer_register(pool.servers[id], spec,
                                     pool.allocated + 1)
    IN /\ id # 0
       /\ pool.allocated < MaxMocks
       /\ PoolStep([pool EXCEPT
              !.servers[id] = r.server,
              !.allocated = @ + 1,
              !.guards = IF scoped
                         THEN Append(@, [server |-> id,
                                         mock_id |-> r.mock_id,
                                         notify |-> pool.allocated + 1,
                                         dropped |-> FALSE,
                                         outcome |-> "alive", owner |-> t])
                         ELSE @,
              !.acted = Acted(t, id)])

\* A request sent to the address of the server that the test t holds.
MockServer_request(t, request) ==
    LET id == pool.handle[t]
        r == BareMockServer_handle_request(pool.servers[id], request)
    IN /\ id # 0
       /\ pool.handled < MaxRequests
       /\ PoolStep([pool EXCEPT
              !.servers[id] = r.server,
              !.handled = @ + 1,
              !.answer = r.answer,
              !.acted = Acted(t, id)])

\* MockServer::reset of the test t.
MockServer_reset(t) ==
    LET id == pool.handle[t]
    IN /\ id # 0
       /\ pool.servers[id].generation < MaxResets
       /\ \E overflow_checks \in BOOLEAN :
             PoolStep([pool EXCEPT
                 !.servers[id] = BareMockServer_reset(@, overflow_checks),
                 !.acted = Acted(t, id)])

\* impl Drop for MockGuard, for a guard of the pool: its server_state is the
\* state of the server that issued it, whoever holds that server now.
MockGuard_dropped(g) ==
    LET guard == pool.guards[g]
        id == guard.server
        r == MockGuard_drop(pool.servers[id].mocks,
                            pool.servers[id].generation, guard, FALSE)
    IN /\ ~guard.dropped
       /\ PoolStep([pool EXCEPT
              !.servers[id].mocks = r.mocks,
              !.guards[g].dropped = TRUE,
              !.guards[g].outcome = r.outcome,
              !.acted = Acted(guard.owner, id)])

\* The MockServer of the test t goes out of scope: the Object of the pool is
\* dropped with it and the server returns to the queue.
MockServer_dropped(t) ==
    LET id == pool.handle[t]
    IN /\ id # 0
       /\ PoolStep([pool EXCEPT
              !.idle = Append(@, id),
              !.handle[t] = 0,
              !.acted = Acted(t, id)])

\* Tests that borrow servers from the pool, use them and return them.
NextPool ==
    \/ \E t \in Borrowers : MockServer_start(t)
    \/ \E t \in Borrowers, spec \in PoolCatalog :
          MockServer_register(t, spec, FALSE)
    \/ \E t \in Borrowers, spec \in PoolCatalog :
          MockServer_register(t, spec, TRUE)
    \/ \E t \in Borrowers, request \in {"a"} :
          MockServer_request(t, request)
    \/ \E t \in Borrowers : MockServer_reset(t)
    \/ \E g \in DOMAIN pool.guards : MockGuard_dropped(g)
    \/ \E t \in Borrowers : MockServer_dropped(t)

SpecPool == Init /\ [][NextPool]_vars

(***************************************************************************)
(* Requests on the wire.  A client of a test sends a request to the        *)
(* address of the server the test holds; the connection task of that       *)
(* server handles it later, whoever holds the server by then: the server   *)
(* keeps its listener and its address when it returns to the pool.         *)
(***************************************************************************)
\* A client of the test t sends a request to the address of t's server.
Client_send(t, request) ==
    LET id == pool.handle[t]
        sent == [by |-> t, server |-> id, request |-> request]
    IN /\ id # 0
       /\ sent \notin pool.wire
       /\ pool.handled + Cardinality(pool.wire) < MaxRequests
       /\ PoolStep([pool EXCEPT !.wire = @ \cup {sent}])

\* HyperRequestHandler::call for a request on the wire: the state it locks
\* is the state of the server the request was sent to.
HyperRequestHandler_call_pooled(sent) ==
    LET r == BareMockServer_handle_request(pool.servers[sent.server],
                                           sent.request)
    IN /\ sent \in pool.wire
       /\ PoolStep([pool EXCEPT
              !.servers[sent.server] = r.server,
              !.handled = @ + 1,
              !.answer = r.answer,
              !.acted = Acted(sent.by, sent.server),
              !.wire = @ \ {sent}])

\* Tests that borrow servers from the pool one after the other while the
\* requests of their clients are on the wire.
NextFlight ==
    \/ \E t \in Borrowers : MockServer_start(t)
    \/ \E t \in Borrowers, spec \in PoolCatalog :
          MockServer_register(t, spec, FALSE)
    \/ \E t \in Borrowers, request \in {"a", "b"} : Client_send(t, request)
    \/ \E sent \in pool.wire : HyperRequestHandler_call_pooled(sent)
    \/ \E t \in Borrowers : MockServer_dropped(t)

SpecFlight == Init /\ [][NextFlight]_vars

(***************************************************************************)
(* A recycled server of the pool next to a dedicated server.  The test t1  *)
(* uses server 1 and returns it to the pool; then t2 is handed server 1    *)
(* by MockServer::start while MockServerBuilder::start builds server 2,   *)
(* and every call is made on both.                                         *)
(***************************************************************************)
Pooled == 1
Dedicated == 2
Twins == Len(pool.servers) = Dedicated

\* MockServer::start for t2 and MockServerBuilder::start, with the default
\* configuration, for t1.
Twin_start ==
    /\ pool.servers # <<>>
    /\ ~Twins
    /\ pool.idle = <<Pooled>>
    /\ \E overflow_checks \in BOOLEAN :
          LET got == Pool_get(pool, overflow_checks)
          IN PoolStep([pool EXCEPT
                 !.servers = Append(got.servers,
                                    MockServerPoolManager_create),
                 !.idle = got.idle,
                 !.handle = [t \in Borrowers |->
                                IF t = "t2" THEN got.object ELSE Dedicated],
                 !.acted = Acted("t2", got.object)])

Twin_register(spec, scoped) ==
    LET p == BareMockServer_register(pool.servers[Pooled], spec,
                                     pool.allocated + 1)
        d == BareMockServer_register(pool.servers[Dedicated], spec,
                                     pool.allocated + 2)
        guard(id, t, r, nid) ==
            [server |-> id, mock_id |-> r.mock_id, notify |-> nid,
             dropped |-> FALSE, outcome |-> "alive", owner |-> t]
    IN /\ Twins
       /\ Len(pool.servers[Dedicated].mocks) < MaxMocks
       /\ PoolStep([pool EXCEPT
              !.servers[Pooled] = p.server,
              !.servers[Dedicated] = d.server,
              !.allocated = @ + 2,
              !.guards =
                  IF scoped
                  THEN @ \o <<guard(Pooled, "t2", p, pool.allocated + 1),
                              guard(Dedicated, "t1", d, pool.allocated + 2)>>
                  ELSE @,
              !.acted = Acted("t2", Pooled)])

Twin_request(request) ==
    LET p == BareMockServer_handle_request(pool.servers[Pooled], request)
        d == BareMockServer_handle_request(pool.servers[Dedicated], request)
    IN /\ Twins
       /\ Len(pool.servers[Dedicated].received_requests[1]) < MaxRequests
       /\ PoolStep([pool EXCEPT
              !.servers[Pooled] = p.server,
              !.servers[Dedicated] = d.server,
              !.answer = p.answer,
              !.acted = Acted("t2", Pooled)])

\* The guard g of the recycled server and the guard g + 1 of the dedicated
\* server, which the same call returned, are dropped.
Twin_drop_guard(g) ==
    LET drop(guard) ==
            MockGuard_drop(pool.servers[guard.server].mocks,
                           pool.servers[guard.server].generation, guard,
                           FALSE)
        p == drop(pool.guards[g])
        d == drop(pool.guards[g + 1])
    IN /\ Twins
       /\ pool.guards[g].owner = "t2"
       /\ ~pool.guards[g].dropped
       /\ PoolStep([pool EXCEPT
              !.servers[Pooled].mocks = p.mocks,
              !.servers[Dedicated].mocks = d.mocks,
              !.guards[g].dropped = TRUE,
              !.guards[g].outcome = p.outcome,
              !.guards[g + 1].dropped = TRUE,
              !.guards[g + 1].outcome = d.outcome,
              !.acted = Acted("t2", Pooled)])

\* The guards that t1 obtained before it returned server 1 to the pool.
Earlier == {g \in DOMAIN pool.guards :
               pool.guards[g].server = Pooled /\ pool.guards[g].owner = "t1"}

NextTwin ==
    \/ /\ ~Twins
       /\ \/ MockServer_start("t1")
          \/ \E spec \in PoolCatalog : MockServer_register("t1", spec, FALSE)
          \/ \E spec \in PoolCatalog : MockServer_register("t1", spec, TRUE)
          \/ \E request \in Requests : MockServer_request("t1", request)
          \/ MockServer_dropped("t1")
    \/ \E g \in Earlier : MockGuard_dropped(g)
    \/ Twin_start
    \/ \E spec \in PoolCatalog : Twin_register(spec, FALSE)
    \/ \E spec \in PoolCatalog : Twin_register(spec, TRUE)
    \/ \E request \in Requests : Twin_request(request)
    \/ \E g \in DOMAIN pool.guards : Twin_drop_guard(g)

SpecTwin == Init /\ [][NextTwin]_vars

(***************************************************************************)
(* run_server: the accept loop of a dedicated server and the tasks it      *)
(* spawns, one per connection.  The shutdown sender is a field of the      *)
(* server: it is dropped with it.                                          *)
(***************************************************************************)
SenderDropped == server # "running"

NetStep(n) ==
    /\ net' = n
    /\ UNCHANGED <<mocks, generation, received_requests, notifiers, guards,
                   panicking, server, pool, template, last, handled, wins>>
    /\ UNCHANGED taskVars

FreeConn ==
    LET i == CHOOSE i \in DOMAIN Conns :
                 /\ net.conns[Conns[i]] = "none"
                 /\ \A j \in 1..(i - 1) : net.conns[Conns[j]] # "none"
    IN Conns[i]

\* A client connects: the connection waits in the listener's queue.
Connect ==
    /\ net.accept = "running"
    /\ net.backlog = 0
    /\ \E i \in DOMAIN Conns : net.conns[Conns[i]] = "none"
    /\ NetStep([net EXCEPT !.backlog = 1])

\* One turn of the loop of run_server: select! { biased; ... } polls
\* listener.accept() first and shutdown_signal.changed() only when no
\* connection is waiting.
run_server ==
    IF net.backlog > 0
    THEN [net EXCEPT !.backlog = 0, !.conns[FreeConn] = "open"]
    ELSE [net EXCEPT !.accept = "stopped", !.cause = "shutdown"]

AcceptLoop ==
    /\ net.accept = "running"
    /\ net.backlog > 0 \/ SenderDropped
    /\ NetStep(run_server)

\* listener.accept() returns an error: Err(_) => break.
AcceptFails ==
    /\ net.accept = "running"
    /\ NetStep([net EXCEPT !.accept = "stopped", !.cause = "error"])

\* run_server has returned: block_on returns and the runtime is dropped with
\* the tasks it still holds.
RuntimeDropped ==
    /\ net.accept = "stopped"
    /\ net.runtime = "alive"
    /\ NetStep([net EXCEPT !.runtime = "dropped",
                           !.conns = [c \in DOMAIN net.conns |-> "none"]])

\* The client sends a request on the connection c.
ConnRequest(c) ==
    /\ net.conns[c] = "open"
    /\ NetStep([net EXCEPT !.conns[c] = "busy"])

\* The exchange in flight on the connection c completes.
ConnResponse(c) ==
    /\ net.conns[c] \in {"busy", "busy_closing"}
    /\ NetStep([net EXCEPT !.conns[c] =
                    IF @ = "busy" THEN "open" ELSE "none"])

\* The client closes the connection c: conn completes and the task ends.
ConnClosed(c) ==
    /\ net.conns[c] = "open"
    /\ NetStep([net EXCEPT !.conns[c] = "none"])

\* shutdown_signal.changed() completes in the task of the connection c:
\* conn.graceful_shutdown().
ConnGracefulShutdown(c) ==
    /\ SenderDropped
    /\ net.conns[c] \in {"open", "busy"}
    /\ NetStep([net EXCEPT !.conns[c] =
                    IF @ = "open" THEN "closing" ELSE "busy_closing"])

\* conn completes after graceful_shutdown: the task of c ends.
ConnShutDown(c) ==
    /\ net.conns[c] = "closing"
    /\ NetStep([net EXCEPT !.conns[c] = "none"])

ConnStep(c) ==
    \/ ConnRequest(c)
    \/ ConnResponse(c)
    \/ ConnClosed(c)
    \/ ConnGracefulShutdown(c)
    \/ ConnShutDown(c)

(***************************************************************************)
(* The operations of a test that runs them one at a time: each takes the   *)
(* lock, acts and releases the lock in one step.                           *)
(***************************************************************************)
Register(spec) ==
    /\ ~panicking
    /\ LockFree
    /\ Len(notifiers) < MaxMocks
    /\ DoRegister(spec, FALSE)
    /\ UNCHANGED taskVars

RegisterAsScoped(spec) ==
    /\ ~panicking
    /\ LockFree
    /\ Len(notifiers) < MaxMocks
    /\ DoRegister(spec, TRUE)
    /\ UNCHANGED taskVars

\* HyperRequestHandler::call for a request served without interleaving.
HandleRequest(request) ==
    /\ LockFree
    /\ handled < MaxRequests
    /\ LET r == MountedMockSet_handle_request(mocks, request)
       IN /\ MockServerState_handle_request(request, r)
          /\ notifiers' = IF r.satisfied = 0 THEN notifiers
                          ELSE [notifiers EXCEPT ![r.satisfied] =
                                   [flag |-> TRUE, calls |-> @.calls + 1]]
          /\ brought' = IF r.satisfied = 0 THEN brought
                        ELSE brought \cup {r.satisfied}
    /\ UNCHANGED <<lock, queue, handlers, test, waiters>>

Reset ==
    /\ ~panicking
    /\ LockFree
    /\ generation < MaxResets
    /\ \E overflow_checks \in BOOLEAN : DoReset(overflow_checks)
    /\ UNCHANGED taskVars

\* reset of a server that has been reset so often that the counter is about
\* to overflow.
ResetWorn ==
    /\ ~panicking
    /\ LockFree
    /\ generation >= U16 - MaxResets
    /\ \E overflow_checks \in BOOLEAN : DoReset(overflow_checks)
    /\ UNCHANGED taskVars

DropGuard(g) ==
    /\ LockFree
    /\ ~guards[g].dropped
    /\ DoDrop(g)
    /\ UNCHANGED taskVars

\* The test fails an assertion of its own: its thread starts unwinding.
TestPanics ==
    /\ ~panicking
    /\ panicking' = TRUE
    /\ UNCHANGED <<mocks, generation, received_requests, notifiers, guards,
                   server, envVars, last, handled, wins>>
    /\ UNCHANGED taskVars

\* MockServer::verify called by the test.
Verify ==
    /\ ~panicking
    /\ server = "running"
    /\ LockFree
    /\ panicking' = (MockServer_verify(mocks, panicking) = "panic")
    /\ UNCHANGED <<mocks, generation, received_requests, notifiers, guards,
                   server, envVars, last, handled, wins>>
    /\ UNCHANGED taskVars

\* impl Drop for MockServer
DropServer ==
    /\ server = "running"
    /\ LockFree
    /\ server' = MockServer_verify(mocks, panicking)
    /\ panicking' = (panicking \/ server' = "panic")
    /\ UNCHANGED envVars
    /\ UNCHANGED <<mocks, generation, received_requests, notifiers, guards,
                   last, handled, wins>>
    /\ UNCHANGED taskVars

\* A test that mounts mocks, sends requests and drops its guards.
Next ==
    \/ \E spec \in Catalog : Register(spec)
    \/ \E spec \in ScopedCatalog : RegisterAsScoped(spec)
    \/ \E request \in Requests : HandleRequest(request)
    \/ \E g \in DOMAIN guards : DropGuard(g)

Spec == Init /\ [][Next]_vars

\* A test of the scoped mocks, which may fail an assertion of its own.
NextScoped ==
    \/ \E spec \in ExpectCatalog : Register(spec)
    \/ \E spec \in ExpectCatalog : RegisterAsScoped(spec)
    \/ \E request \in Requests : HandleRequest(request)
    \/ \E g \in DOMAIN guards : DropGuard(g)
    \/ TestPanics

SpecScoped == Init /\ [][NextScoped]_vars

\* A test of expectations that verifies its server, may fail an assertion of
\* its own and drops the server at its end or while it unwinds.
NextDrop ==
    /\ server = "running"
    /\ \/ \E spec \in ExpectCatalog : Register(spec)
       \/ \E spec \in ExpectCatalog : RegisterAsScoped(spec)
       \/ \E request \in Requests : HandleRequest(request)
       \/ \E g \in DOMAIN guards : DropGuard(g)
       \/ TestPanics
       \/ Verify
       \/ DropServer

SpecDrop == Init /\ [][NextDrop]_vars

\* A dedicated server with its clients, dropped by the test at some point.
NextNet ==
    \/ Connect
    \/ AcceptLoop
    \/ AcceptFails
    \/ RuntimeDropped
    \/ \E c \in DOMAIN net.conns : ConnStep(c)
    \/ \E spec \in ExpectCatalog : server = "running" /\ Register(spec)
    \/ DropServer

\* The tasks of the server's runtime are scheduled again and again, and an
\* exchange in flight completes; clients connect and send as they please.
FairNet ==
    /\ WF_vars(AcceptLoop)
    /\ WF_vars(RuntimeDropped)
    /\ \A c \in {Conns[i] : i \in DOMAIN Conns} :
          /\ WF_vars(ConnResponse(c))
          /\ WF_vars(ConnGracefulShutdown(c))
          /\ WF_vars(ConnShutDown(c))

SpecNet == Init /\ [][NextNet]_vars /\ FairNet

\* A call of set_body_* on the template a test is building.
TemplateStep(t, call) ==
    /\ Len(template.calls) < MaxSetBody
    /\ template' = [built |-> t, calls |-> Append(template.calls, call)]
    /\ UNCHANGED <<mocks, generation, received_requests, notifiers, guards,
                   panicking, server, pool, net, last, handled, wins>>
    /\ UNCHANGED taskVars

SetBodyBytes(body) ==
    TemplateStep(ResponseTemplate_set_body_bytes(template.built, <<body>>),
                 [fn |-> "set_body_bytes", body |-> <<body>>])

SetBodyJson(body) ==
    TemplateStep(ResponseTemplate_set_body_json(template.built, body),
                 [fn |-> "set_body_json", body |-> body])

SetBodyString(body) ==
    TemplateStep(ResponseTemplate_set_body_string(template.built, body),
                 [fn |-> "set_body_string", body |-> body])

SetBodyRaw(body, mime) ==
    TemplateStep(ResponseTemplate_set_body_raw(template.built, <<body>>,
                                               mime),
                 [fn |-> "set_body_raw", body |-> <<body>>, mime |-> mime])

\* A test that builds a response template.
NextTemplate ==
    \/ \E body \in Texts : SetBodyBytes(body)
    \/ \E body \in Texts : SetBodyJson(body)
    \/ \E body \in Texts : SetBodyString(body)
    \/ \E body \in Texts, mime \in MediaTypes : SetBodyRaw(body, mime)

SpecTemplate == Init /\ [][NextTemplate]_vars

\* A test of expectations of every shape.
NextTimes ==
    \/ \E spec \in TimesCatalog : Register(spec)
    \/ \E request \in Requests : HandleRequest(request)

SpecTimes == Init /\ [][NextTimes]_vars

\* A test of matching.
NextMatch ==
    \/ \E spec \in MatchCatalog : Register(spec)
    \/ \E request \in Requests : HandleRequest(request)

SpecMatch == Init /\ [][NextMatch]_vars

\* A test with named and unnamed mocks on a server built with or without
\* request recording, which it may reset.
NextMessage ==
    \/ \E spec \in MessageCatalog : Register(spec)
    \/ \E spec \in MessageCatalog : RegisterAsScoped(spec)
    \/ \E request \in Requests : HandleRequest(request)
    \/ Reset
    \/ \E g \in DOMAIN guards : DropGuard(g)

SpecMessage == InitBuilt /\ [][NextMessage]_vars

\* A test that mounts mocks, sends requests, resets the server and drops
\* guards, on a server built with or without request recording.
NextReset ==
    \/ \E spec \in ResetCatalog : Register(spec)
    \/ \E spec \in ResetCatalog : RegisterAsScoped(spec)
    \/ \E request \in Requests : HandleRequest(request)
    \/ Reset
    \/ \E g \in DOMAIN guards : DropGuard(g)

SpecReset == InitBuilt /\ [][NextReset]_vars

\* A server that handed out a guard in generation 0 and has since been
\* reset U16 - MaxResets times: the guard is kept by the test.
InitWorn ==
    /\ mocks = <<>>
    /\ generation = U16 - MaxResets
    /\ received_requests = Some(<<>>)
    /\ notifiers = <<NewNotifier>>
    /\ guards = <<[mock_id |-> [index |-> 0, generation |-> 0],
                   notify |-> 1, dropped |-> FALSE, outcome |-> "alive"]>>
    /\ panicking = FALSE
    /\ server = "running"
    /\ pool = EmptyPool
    /\ net = Listening
    /\ template = NewTemplate
    /\ last = [req |-> "", response |-> NoResponse, delay |-> None]
    /\ handled = 0
    /\ wins = <<>>
    /\ lock = [writer |-> NoOne, readers |-> {}]
    /\ queue = <<>>
    /\ handlers = [h \in Handlers |-> IdleHandler]
    /\ test = IdleTest
    /\ waiters = [w \in Waiters |-> IdleWaiter]
    /\ brought = {}

\* The test goes on mounting mocks, sending requests, resetting the server
\* and dropping guards.
NextWorn ==
    \/ \E spec \in ResetCatalog : Register(spec)
    \/ \E spec \in ResetCatalog : RegisterAsScoped(spec)
    \/ \E request \in Requests : HandleRequest(request)
    \/ ResetWorn
    \/ \E g \in DOMAIN guards : DropGuard(g)

SpecWorn == InitWorn /\ [][NextWorn]_vars

(***************************************************************************)
(* The read-write lock: tokio's RwLock serves its waiters first come first *)
(* served; a writer excludes everyone, readers exclude writers.            *)
(***************************************************************************)
Granted(task, mode) ==
    /\ queue # <<>>
    /\ Head(queue) = [task |-> task, mode |-> mode]
    /\ lock.writer = NoOne
    /\ mode = "write" => lock.readers = {}

Acquire(task, mode) ==
    /\ lock' = IF mode = "write" THEN [lock EXCEPT !.writer = task]
               ELSE [lock EXCEPT !.readers = @ \cup {task}]
    /\ queue' = Tail(queue)

Release(task) ==
    lock' = [writer |-> IF lock.writer = task THEN NoOne ELSE lock.writer,
             readers |-> lock.readers \ {task}]

(***************************************************************************)
(* HyperRequestHandler::call, statement by statement.  "write" waits for   *)
(* the write lock; "store" and "notify_waiters" are the notification of    *)
(* MountedMock::matches, run when the match satisfied the expectation;     *)
(* "unlock" is the end of the statement that holds the lock guard; "delay" *)
(* is run when the template has a delay.                                   *)
(***************************************************************************)
HyperRequestHandler_call_delay_locked ==
    <<"write", "handle_request", "store", "notify_waiters", "delay",
      "unlock", "respond">>

\* HyperRequestHandler::call returning the response before it awaits the
\* delay.
HyperRequestHandler_call_respond_first ==
    <<"write", "handle_request", "store", "notify_waiters", "unlock",
      "respond", "delay">>

HyperRequestHandler_call ==
    <<"write", "handle_request", "store", "notify_waiters", "unlock",
      "delay", "respond">>

Stmt(h) ==
    IF handlers[h].pc = 0 THEN "idle"
    ELSE HyperRequestHandler_call[handlers[h].pc]

Applies(stmt, task) ==
    CASE stmt \in {"store", "notify_waiters"} -> task.satisfied # 0
      [] stmt = "delay" -> task.delay # None
      [] OTHER -> TRUE

\* The statement run after statement i: 0 when the call has returned.
RECURSIVE After(_, _)
After(i, task) ==
    IF i >= Len(HyperRequestHandler_call) THEN 0
    ELSE IF Applies(HyperRequestHandler_call[i + 1], task) THEN i + 1
    ELSE After(i + 1, task)

\* Requests that have arrived and are not handled yet.
Unhandled == {h \in Handlers : Stmt(h) \in {"write", "handle_request"}}

\* A request arrives on a connection: its task asks for the write lock.
H_Arrive(h, request) ==
    /\ handlers[h].pc = 0
    /\ h = FirstIdle(HandlerOrder, handlers)
    /\ handled + Cardinality(Unhandled) < MaxRequests
    /\ handlers' = [handlers EXCEPT ![h] = [IdleHandler EXCEPT
                       !.pc = 1, !.req = request]]
    /\ queue' = Append(queue, [task |-> h, mode |-> "write"])
    /\ UNCHANGED <<setVars, lock, test, waiters, brought>>

H_Write(h) ==
    /\ Stmt(h) = "write"
    /\ Granted(h, "write")
    /\ Acquire(h, "write")
    /\ handlers' = [handlers EXCEPT ![h].pc = After(@, handlers[h])]
    /\ UNCHANGED <<setVars, test, waiters, brought>>

H_HandleRequest(h) ==
    /\ Stmt(h) = "handle_request"
    /\ LET r == MountedMockSet_handle_request(mocks, handlers[h].req)
           task == [handlers[h] EXCEPT !.response = r.response,
                                       !.delay = r.delay,
                                       !.satisfied = r.satisfied]
       IN /\ MockServerState_handle_request(handlers[h].req, r)
          /\ handlers' = [handlers EXCEPT ![h] =
                             [task EXCEPT !.pc = After(@, task)]]
          /\ brought' = IF r.satisfied = 0 THEN brought
                        ELSE brought \cup {r.satisfied}
    /\ UNCHANGED <<notifiers, lock, queue, test, waiters>>

\* self.notify.1.store(true, Release)
H_Store(h) ==
    /\ Stmt(h) = "store"
    /\ notifiers' = [notifiers EXCEPT ![handlers[h].satisfied].flag = TRUE]
    /\ handlers' = [handlers EXCEPT ![h].pc = After(@, handlers[h])]
    /\ UNCHANGED <<mocks, generation, received_requests, guards, panicking,
                   server, envVars, last, handled, wins, lock, queue, test,
                   waiters, brought>>

\* self.notify.0.notify_waiters(): every Notified future that is enabled
\* completes, and one created before the call completes when it is enabled.
H_NotifyWaiters(h) ==
    /\ Stmt(h) = "notify_waiters"
    /\ notifiers' = [notifiers EXCEPT ![handlers[h].satisfied].calls = @ + 1]
    /\ waiters' = [w \in Waiters |->
                      IF /\ waiters[w].notify = handlers[h].satisfied
                         /\ waiters[w].notified = "waiting"
                      THEN [waiters[w] EXCEPT !.notified = "done"]
                      ELSE waiters[w]]
    /\ handlers' = [handlers EXCEPT ![h].pc = After(@, handlers[h])]
    /\ UNCHANGED <<mocks, generation, received_requests, guards, panicking,
                   server, envVars, last, handled, wins, lock, queue, test,
                   brought>>

H_Unlock(h) ==
    /\ Stmt(h) = "unlock"
    /\ Release(h)
    /\ handlers' = [handlers EXCEPT ![h].pc = After(@, handlers[h])]
    /\ UNCHANGED <<setVars, queue, test, waiters, brought>>

\* delay.await: the delay of the template elapses.
H_Delay(h) ==
    /\ Stmt(h) = "delay"
    /\ handlers' = [handlers EXCEPT ![h].pc = After(@, handlers[h]),
                                    ![h].slept = TRUE]
    /\ UNCHANGED <<setVars, lock, queue, test, waiters, brought>>

\* Ok(response): the call returns and the response is written.
H_Respond(h) ==
    /\ Stmt(h) = "respond"
    /\ handlers' = [handlers EXCEPT ![h] = IdleHandler]
    /\ UNCHANGED <<setVars, lock, queue, test, waiters, brought>>

(***************************************************************************)
(* The operations of the test task while requests are served: the task     *)
(* asks for the lock, is granted it, then acts and releases it.            *)
(***************************************************************************)
Mode(op) == IF op \in {"verify", "received_requests"} THEN "read" ELSE "write"

T_Start(op, spec, g) ==
    /\ test.pc = "idle"
    /\ ~panicking
    /\ test' = [pc |-> "waiting", op |-> op, spec |-> spec, guard |-> g]
    /\ queue' = Append(queue, [task |-> "t", mode |-> Mode(op)])
    /\ UNCHANGED <<setVars, lock, handlers, waiters, brought>>

T_Register(spec) ==
    /\ Len(notifiers) < MaxMocks
    /\ T_Start("register", Some(spec), 0)

T_RegisterAsScoped(spec) ==
    /\ Len(notifiers) < MaxMocks
    /\ T_Start("register_as_scoped", Some(spec), 0)

T_Verify == T_Start("verify", None, 0)

T_ReceivedRequests == T_Start("received_requests", None, 0)

T_Reset ==
    /\ generation < MaxResets
    /\ T_Start("reset", None, 0)

T_Drop(g) ==
    /\ ~guards[g].dropped
    /\ T_Start("drop", None, g)

T_Locked ==
    /\ test.pc = "waiting"
    /\ Granted("t", Mode(test.op))
    /\ Acquire("t", Mode(test.op))
    /\ test' = [test EXCEPT !.pc = "holding"]
    /\ UNCHANGED <<setVars, handlers, waiters, brought>>

T_Perform ==
    /\ test.pc = "holding"
    /\ CASE test.op = "register" -> DoRegister(test.spec[1], FALSE)
         [] test.op = "register_as_scoped" -> DoRegister(test.spec[1], TRUE)
         [] test.op = "reset" ->
               \E overflow_checks \in BOOLEAN : DoReset(overflow_checks)
         [] test.op = "drop" -> DoDrop(test.guard)
         [] OTHER -> UNCHANGED setVars
    /\ Release("t")
    /\ test' = IdleTest
    /\ UNCHANGED <<queue, handlers, waiters, brought>>

(***************************************************************************)
(* MockGuard::wait_until_satisfied, statement by statement.                *)
(***************************************************************************)
wait_until_satisfied_load_first == <<"load", "notified", "enable", "await">>

wait_until_satisfied == <<"notified", "enable", "load", "await">>

Returned == Len(wait_until_satisfied) + 1

WStmt(w) ==
    IF waiters[w].pc \in 1..Len(wait_until_satisfied)
    THEN wait_until_satisfied[waiters[w].pc] ELSE "none"

\* The match count of the mock that shares notifier nid.
CountOf(ms, nid) ==
    LET i == CHOOSE i \in DOMAIN ms : ms[i][1].notify = nid
    IN ms[i][1].n_matched_requests

Call(w, g, n) ==
    /\ waiters[w].pc = 0
    /\ w = FirstIdle(WaiterOrder, waiters)
    /\ ~guards[g].dropped
    /\ waiters' = [waiters EXCEPT ![w] = [IdleWaiter EXCEPT
                      !.pc = 1, !.notify = guards[g].notify,
                      !.n_at_call = n]]
    /\ UNCHANGED <<setVars, lock, queue, handlers, test, brought>>

W_Call(w, g) == Call(w, g, 0)

\* The call, with the match count of the mock observed.
W_CallObserved(w, g) == Call(w, g, CountOf(mocks, guards[g].notify))

\* notify.notified(): the future remembers the calls of notify_waiters so far.
W_Notified(w) ==
    /\ WStmt(w) = "notified"
    /\ waiters' = [waiters EXCEPT ![w] = [@ EXCEPT
                      !.pc = @ + 1, !.notified = "created",
                      !.seen = notifiers[waiters[w].notify].calls]]
    /\ UNCHANGED <<setVars, lock, queue, handlers, test, brought>>

\* notification.as_mut().enable()
W_Enable(w) ==
    /\ WStmt(w) = "enable"
    /\ waiters' = [waiters EXCEPT ![w] = [@ EXCEPT
                      !.pc = @ + 1,
                      !.notified =
                          IF notifiers[waiters[w].notify].calls # waiters[w].seen
                          THEN "done" ELSE "waiting"]]
    /\ UNCHANGED <<setVars, lock, queue, handlers, test, brought>>

\* if flag.load(Acquire) { return; }
W_Load(w) ==
    /\ WStmt(w) = "load"
    /\ waiters' = [waiters EXCEPT ![w] =
                      IF notifiers[waiters[w].notify].flag
                      THEN [@ EXCEPT !.pc = Returned, !.n_at_call = 0]
                      ELSE [@ EXCEPT !.pc = @ + 1]]
    /\ UNCHANGED <<setVars, lock, queue, handlers, test, brought>>

\* notification.await
W_Await(w) ==
    /\ WStmt(w) = "await"
    /\ waiters[w].notified = "done"
    /\ waiters' = [waiters EXCEPT ![w] =
                      [@ EXCEPT !.pc = Returned, !.n_at_call = 0]]
    /\ UNCHANGED <<setVars, lock, queue, handlers, test, brought>>

(***************************************************************************)
(* Requests served at once while the test task mounts mocks, resets the    *)
(* server, verifies and reads the recorded requests.                       *)
(***************************************************************************)
HandlerStep(h, requests) ==
    \/ \E request \in requests : H_Arrive(h, request)
    \/ H_Write(h)
    \/ H_HandleRequest(h)
    \/ H_Store(h)
    \/ H_NotifyWaiters(h)
    \/ H_Unlock(h)
    \/ H_Delay(h)
    \/ H_Respond(h)

NextLock ==
    \/ \E h \in Handlers : HandlerStep(h, {"a"})
    \/ \E spec \in DelayCatalog : T_Register(spec)
    \/ T_Reset
    \/ T_Verify
    \/ T_ReceivedRequests
    \/ T_Locked
    \/ T_Perform

\* H_HandleRequest(h) is enabled exactly when h is at "handle_request" and
\* takes h past it: weak fairness of it says that h is not at that statement
\* for ever.
FairHandleRequest(h) == []<>(Stmt(h) # "handle_request")

\* Every step of a task that holds the lock or is granted it is taken; a
\* delay may last for ever and requests need not arrive.
FairLock ==
    /\ \A h \in Handlers :
          /\ WF_vars(H_Write(h))
          /\ FairHandleRequest(h)
          /\ WF_vars(H_Store(h))
          /\ WF_vars(H_NotifyWaiters(h))
          /\ WF_vars(H_Unlock(h))
          /\ WF_vars(H_Respond(h))
    /\ WF_vars(T_Locked)
    /\ WF_vars(T_Perform)

SpecLock == Init /\ [][NextLock]_vars /\ FairLock

(***************************************************************************)
(* impl Drop for MockGuard, statement by statement, while requests are     *)
(* served.  The future of the drop awaits the write lock and keeps the     *)
(* guard `state` until the future ends or is dropped: a panic raised in    *)
(* the future leaves `state` alive until the unwinding drops the future.   *)
(***************************************************************************)
\* futures::executor::block_on(future): server_state.write().await, also in
\* a thread that is unwinding.
D_Write(g) ==
    /\ test.pc = "idle"
    /\ ~guards[g].dropped
    /\ test' = [pc |-> "waiting", op |-> "drop", spec |-> None, guard |-> g]
    /\ queue' = Append(queue, [task |-> "t", mode |-> "write"])
    /\ UNCHANGED <<setVars, lock, handlers, waiters, brought>>

\* state.mock_set.verify(*mock_id), then log::debug! or panic! when the
\* report is not satisfied; when it is, the drop goes on to deactivate.
D_Verify ==
    /\ test.pc = "holding"
    /\ test.op = "drop"
    /\ IF MockGuard_drop(mocks, generation, guards[test.guard],
                         panicking).outcome = "ok"
       THEN /\ test' = [test EXCEPT !.pc = "deactivate"]
            /\ UNCHANGED setVars
       ELSE /\ DoDrop(test.guard)
            /\ test' = [test EXCEPT !.pc =
                   IF panicking' /\ ~panicking THEN "panicked" ELSE "end"]
    /\ UNCHANGED <<lock, queue, handlers, waiters, brought>>

\* state.mock_set.deactivate(*mock_id)
D_Deactivate ==
    /\ test.pc = "deactivate"
    /\ mocks' = MountedMockSet_deactivate(mocks, guards[test.guard].mock_id)
    /\ guards' = [guards EXCEPT ![test.guard] =
                     [@ EXCEPT !.dropped = TRUE, !.outcome = "ok"]]
    /\ test' = [test EXCEPT !.pc = "end"]
    /\ UNCHANGED <<generation, received_requests, notifiers, panicking,
                   server, envVars, last, handled, wins>>
    /\ UNCHANGED <<lock, queue, handlers, waiters, brought>>

\* The panic unwinds block_on, which drops the future and `state` with it.
D_Unwind ==
    /\ test.pc = "panicked"
    /\ Release("t")
    /\ test' = IdleTest
    /\ UNCHANGED <<setVars, queue, handlers, waiters, brought>>

\* The end of the async block drops `state`.
D_End ==
    /\ test.pc = "end"
    /\ Release("t")
    /\ test' = IdleTest
    /\ UNCHANGED <<setVars, queue, handlers, waiters, brought>>

\* A test that mounts scoped mocks and drops their guards, at the end of
\* their scopes or while it unwinds from a failed assertion of its own.
NextGuard ==
    \/ \E h \in Handlers : HandlerStep(h, {"a"})
    \/ \E spec \in GuardCatalog : T_RegisterAsScoped(spec)
    \/ T_Locked
    \/ test.op # "drop" /\ T_Perform
    \/ test.pc = "idle" /\ TestPanics
    \/ \E g \in DOMAIN guards : D_Write(g)
    \/ D_Verify
    \/ D_Deactivate
    \/ D_Unwind
    \/ D_End

FairGuard ==
    /\ \A h \in Handlers :
          /\ WF_vars(H_Write(h))
          /\ FairHandleRequest(h)
          /\ WF_vars(H_Store(h))
          /\ WF_vars(H_NotifyWaiters(h))
          /\ WF_vars(H_Unlock(h))
          /\ WF_vars(H_Respond(h))
    /\ WF_vars(T_Locked)
    /\ WF_vars(test.op # "drop" /\ T_Perform)
    /\ WF_vars(D_Verify)
    /\ WF_vars(D_Deactivate)
    /\ WF_vars(D_Unwind)
    /\ WF_vars(D_End)

SpecGuard == Init /\ [][NextGuard]_vars /\ FairGuard

(***************************************************************************)
(* The drops of a test whose thread runs a second task beside the test.    *)
(* The second task calls one operation of the server at a time and is      *)
(* named, in the lock and in its queue, by that operation.  The drop of a  *)
(* guard and the drop of the server run block_on: from their start to      *)
(* their end no other task of the thread is polled.  The lock hands itself *)
(* to the first task of its queue when it is released, polled or not.      *)
(***************************************************************************)
Spawned == {"register", "reset", "received_requests", "verify"}

\* The operation the second task has in progress, if any.
InProgress ==
    {op \in Spawned :
        \/ lock.writer = op
        \/ op \in lock.readers
        \/ \E i \in DOMAIN queue : queue[i].task = op}

\* futures::executor::block_on of a drop is running on the thread.
ThreadBlocked == test.op \in {"drop", "drop_server"} /\ test.pc # "idle"

\* The lock can be taken at once in the given mode.
Available(mode) ==
    /\ queue = <<>>
    /\ lock.writer = NoOne
    /\ mode = "write" => lock.readers = {}

\* The second task is polled and calls op.
U_Call(op) ==
    /\ InProgress = {}
    /\ ~ThreadBlocked
    /\ server = "running"
    /\ ~panicking
    /\ op = "register" => Len(notifiers) < MaxMocks
    /\ op = "reset" => generation < MaxResets

\* What the operation of the second task does under the lock.
U_Do(op) ==
    CASE op = "register" ->
            \E spec \in ThreadCatalog : DoRegister(spec, FALSE)
      [] op = "reset" ->
            \E overflow_checks \in BOOLEAN : DoReset(overflow_checks)
      [] OTHER -> UNCHANGED setVars

\* state.write().await or state.read().await is ready at once: the task
\* acts and drops the lock guard before it is suspended.
U_Run(op) ==
    /\ U_Call(op)
    /\ Available(Mode(op))
    /\ U_Do(op)
    /\ UNCHANGED taskVars

\* state.write().await or state.read().await is pending: the task joins
\* the queue of the lock and is suspended.
U_Wait(op) ==
    /\ U_Call(op)
    /\ ~Available(Mode(op))
    /\ queue' = Append(queue, [task |-> op, mode |-> Mode(op)])
    /\ UNCHANGED <<setVars, lock, handlers, test, waiters, brought>>

\* The lock is released to the second task.
U_Locked(op) ==
    /\ Granted(op, Mode(op))
    /\ Acquire(op, Mode(op))
    /\ UNCHANGED <<setVars, handlers, test, waiters, brought>>

\* The second task is polled, acts and drops the lock guard.
U_Perform(op) ==
    /\ lock.writer = op \/ op \in lock.readers
    /\ ~ThreadBlocked
    /\ U_Do(op)
    /\ Release(op)
    /\ UNCHANGED <<queue, handlers, test, waiters, brought>>

\* impl Drop for MockServer: block_on(self.verify()), state.read().await.
S_Read ==
    /\ test.pc = "idle"
    /\ server = "running"
    /\ test' = [pc |-> "waiting", op |-> "drop_server", spec |-> None,
                guard |-> 0]
    /\ queue' = Append(queue, [task |-> "t", mode |-> "read"])
    /\ UNCHANGED <<setVars, lock, handlers, waiters, brought>>

S_Locked ==
    /\ test.pc = "waiting"
    /\ test.op = "drop_server"
    /\ Granted("t", "read")
    /\ Acquire("t", "read")
    /\ test' = [test EXCEPT !.pc = "holding"]
    /\ UNCHANGED <<setVars, handlers, waiters, brought>>

\* mock_set.verify_all() under the read guard, then the panic or the log
\* of MockServer::verify.
S_Verify ==
    /\ test.pc = "holding"
    /\ test.op = "drop_server"
    /\ server' = MockServer_verify(mocks, panicking)
    /\ panicking' = (panicking \/ server' = "panic")
    /\ Release("t")
    /\ test' = IdleTest
    /\ UNCHANGED <<mocks, generation, received_requests, notifiers, guards,
                   envVars, last, handled, wins>>
    /\ UNCHANGED <<queue, handlers, waiters, brought>>

\* A test that mounts scoped mocks, drops their guards and its server,
\* while a second task of its thread calls the server.
NextThread ==
    \/ \E h \in Handlers : HandlerStep(h, {"a"})
    \/ \E spec \in ThreadCatalog :
          server = "running" /\ test.pc = "idle" /\ RegisterAsScoped(spec)
    \/ T_Locked
    \/ \E g \in DOMAIN guards : server = "running" /\ D_Write(g)
    \/ D_Verify
    \/ D_Deactivate
    \/ D_Unwind
    \/ D_End
    \/ S_Read
    \/ S_Locked
    \/ S_Verify
    \/ \E op \in Spawned : U_Run(op)
    \/ \E op \in Spawned : U_Wait(op)
    \/ \E op \in Spawned : U_Locked(op)
    \/ \E op \in Spawned : U_Perform(op)

\* Every task that is polled and can run is run, and the lock is handed on.
FairThread ==
    /\ \A h \in Handlers :
          /\ WF_vars(H_Write(h))
          /\ FairHandleRequest(h)
          /\ WF_vars(H_Store(h))
          /\ WF_vars(H_NotifyWaiters(h))
          /\ WF_vars(H_Unlock(h))
          /\ WF_vars(H_Respond(h))
    /\ WF_vars(T_Locked)
    /\ WF_vars(D_Verify)
    /\ WF_vars(D_Deactivate)
    /\ WF_vars(D_Unwind)
    /\ WF_vars(D_End)
    /\ WF_vars(S_Locked)
    /\ WF_vars(S_Verify)
    /\ \A op \in Spawned :
          /\ WF_vars(U_Locked(op))
          /\ WF_vars(U_Perform(op))

SpecThread == Init /\ [][NextThread]_vars /\ FairThread

(***************************************************************************)
(* Requests served while tasks wait for scoped mocks to be satisfied.      *)
(***************************************************************************)
WaiterStep(w) ==
    \/ \E g \in DOMAIN guards : W_Call(w, g)
    \/ W_Notified(w)
    \/ W_Enable(w)
    \/ W_Load(w)
    \/ W_Await(w)

NextNotify ==
    \/ \E spec \in WaitCatalog : RegisterAsScoped(spec)
    \/ \E h \in Handlers : HandlerStep(h, {"a"})
    \/ \E w \in Waiters : WaiterStep(w)

\* Every task that can run is run; requests need not arrive and
\* wait_until_satisfied need not be called.
FairNotify ==
    /\ \A h \in Handlers :
          /\ WF_vars(H_Write(h))
          /\ FairHandleRequest(h)
          /\ WF_vars(H_Store(h))
          /\ WF_vars(H_NotifyWaiters(h))
          /\ WF_vars(H_Unlock(h))
          /\ WF_vars(H_Delay(h))
          /\ WF_vars(H_Respond(h))
    /\ \A w \in Waiters :
          /\ WF_vars(W_Notified(w))
          /\ WF_vars(W_Enable(w))
          /\ WF_vars(W_Load(w))
          /\ WF_vars(W_Await(w))

SpecNotify == Init /\ [][NextNotify]_vars /\ FairNotify

(***************************************************************************)
(* Requests served while tasks wait for a scoped mock whose expectation    *)
(* admits no match at all.                                                 *)
(***************************************************************************)
NextWait ==
    \/ \E spec \in ZeroCatalog : RegisterAsScoped(spec)
    \/ \E h \in Handlers : HandlerStep(h, {"a"})
    \/ \E w \in Waiters, g \in DOMAIN guards : W_CallObserved(w, g)
    \/ \E w \in Waiters : W_Notified(w) \/ W_Enable(w) \/ W_Load(w)
                                \/ W_Await(w)

SpecWait == Init /\ [][NextWait]_vars /\ FairNotify

(***************************************************************************)
(* Properties.                                                             *)
(***************************************************************************)
\* A step that handles a request: last' holds the request and the answer.
HandleStep == handled' = handled + 1

\* The mock of the set that owns notifier nid.
MockOf(ms, nid) ==
    LET i == CHOOSE i \in DOMAIN ms : ms[i][1].notify = nid IN ms[i][1]

ScopeOf(ms, nid) ==
    LET i == CHOOSE i \in DOMAIN ms : ms[i][1].notify = nid IN ms[i][2]

Notifiers(ms) == {ms[i][1].notify : i \in DOMAIN ms}

Accepts(m, request) ==
    \A k \in 1..Len(m.specification.matchers) :
        request \in m.specification.matchers[k]

Exhausted(m) ==
    /\ m.specification.max_n_matches # None
    /\ m.n_matched_requests >= m.specification.max_n_matches[1]

\* The mocks that may answer a request.
Eligible(ms, request) ==
    {i \in DOMAIN ms : /\ ms[i][2] = InScope
                       /\ ~Exhausted(ms[i][1])
                       /\ Accepts(ms[i][1], request)}

\* Priority ascending, then registration order.
Precedes(x, y) ==
    \/ x.specification.priority < y.specification.priority
    \/ /\ x.specification.priority = y.specification.priority
       /\ x.position_in_set < y.position_in_set

FirstEligible(ms, request) ==
    LET i == CHOOSE i \in Eligible(ms, request) :
                 \A j \in Eligible(ms, request) \ {i} :
                     Precedes(ms[i][1], ms[j][1])
    IN ms[i][1]

\* C1: handle_request answers with the responder of the first mock, in the
\* order (priority ascending, then registration order), that is InScope, has
\* not reached max_n_matches and whose matchers all accept the request,
\* after any earlier sequence of register and handle_request calls.
C1_FirstMatchWins ==
    [][HandleStep /\ Eligible(mocks, last'.req) # {} =>
         LET m == FirstEligible(mocks, last'.req)
         IN /\ last'.response.by = m.notify
            /\ last'.response.kind = m.specification.response.kind
            /\ last'.response.status = m.specification.response.status
            /\ last'.response.body = m.specification.response.body
            /\ last'.delay = m.specification.response.delay]_vars

\* A request was answered by a mock registered after another mock that is
\* InScope, not exhausted and accepts the request too, once an earlier
\* request had the vector sorted.
C1_Witness ==
    /\ handled >= 2
    /\ last.response.by # 0
    /\ \E i, j \in DOMAIN mocks :
          /\ mocks[i][1].notify = last.response.by
          /\ mocks[j][1].position_in_set < mocks[i][1].position_in_set
          /\ mocks[j][2] = InScope
          /\ ~Exhausted(mocks[j][1])
          /\ Accepts(mocks[j][1], last.req)

\* C5: for every mounted mock n_matched_requests is the number of handled
\* requests that mock answered; a handled request increments the counter of
\* at most one mock, the one that answers, and a 404 increments none.
CountersAreWins ==
    \A i \in DOMAIN mocks :
        mocks[i][1].n_matched_requests =
            wins[mocks[i][1].position_in_set + 1]

C5_CounterAccuracy ==
    /\ []CountersAreWins
    /\ [][HandleStep =>
            \A nid \in Notifiers(mocks) :
                MockOf(mocks', nid).n_matched_requests =
                    MockOf(mocks, nid).n_matched_requests
                        + (IF last'.response.by = nid THEN 1 ELSE 0)]_vars

\* A mock has answered a request, and the last request left the counter of
\* a mock at 0 although that mock is InScope and accepts it.
C5_Witness ==
    /\ handled >= 2
    /\ \E i \in DOMAIN mocks : mocks[i][1].n_matched_requests >= 1
    /\ \E i \in DOMAIN mocks :
          /\ mocks[i][1].n_matched_requests = 0
          /\ Accepts(mocks[i][1], last.req)
          /\ mocks[i][2] = InScope

\* C7: when no mock is registered, or no InScope non-exhausted mock accepts
\* the request, handle_request returns status 404 with an empty body and no
\* delay, and leaves the counter, the recorded matches and the scope state
\* of every mock unchanged.
C7_NotFound ==
    [][HandleStep /\ Eligible(mocks, last'.req) = {} =>
         /\ last'.response.kind = "Ok"
         /\ last'.response.status = 404
         /\ last'.response.body = ""
         /\ last'.response.by = 0
         /\ last'.delay = None
         /\ Notifiers(mocks') = Notifiers(mocks)
         /\ Len(mocks') = Len(mocks)
         /\ \A nid \in Notifiers(mocks) :
               /\ MockOf(mocks', nid) = MockOf(mocks, nid)
               /\ ScopeOf(mocks', nid) = ScopeOf(mocks, nid)]_vars

\* A request got 404 from a set that holds a mock out of scope and an
\* exhausted mock, each of which accepts the request.
C7_Witness ==
    /\ last.response.status = 404
    /\ \E i, j \in DOMAIN mocks :
          /\ mocks[i][2] = OutOfScope
          /\ Accepts(mocks[i][1], last.req)
          /\ ~Exhausted(mocks[i][1])
          /\ mocks[j][2] = InScope
          /\ Exhausted(mocks[j][1])
          /\ Accepts(mocks[j][1], last.req)

\* The guards whose MockId is of the current generation.
LiveGuards == {g \in DOMAIN guards : guards[g].mock_id.generation = generation}

\* A step that drops guard g.
DropStep(g) == ~guards[g].dropped /\ guards'[g].dropped

\* C2: without a reset the MockId returned by register(m) keeps denoting m:
\* verify(id) reports the name, position and match count of m, and
\* deactivate(id) marks m and no other mock OutOfScope, also when mocks of
\* different priorities are mounted and requests were handled in between.
C2_MockIdDenotesItsMock ==
    \A g \in LiveGuards :
        LET id == guards[g].mock_id
            own == guards[g].notify
            after == MountedMockSet_deactivate(mocks, id)
        IN /\ MountedMockSet_verify(mocks, generation, id) =
                  MountedMock_verify(MockOf(mocks, own))
           /\ ScopeOf(after, own) = OutOfScope
           /\ \A nid \in Notifiers(mocks) \ {own} :
                  ScopeOf(after, nid) = ScopeOf(mocks, nid)

\* C3: dropping a MockGuard does not panic when the match count of the
\* guard's own mock lies in its expectation range, and panics when it lies
\* outside, unless the thread is already unwinding, when it only logs.
C3_DropVerifiesOwnMock ==
    [][\A g \in LiveGuards :
         DropStep(g) =>
            LET own == MockOf(mocks, guards[g].notify)
                ok == contains(own.specification.expectation_range,
                               own.n_matched_requests)
            IN guards'[g].outcome =
                  IF ok THEN "ok" ELSE IF panicking THEN "logged"
                  ELSE "panic"]_vars

\* C4: after the drop of its guard has run a scoped mock never again answers
\* a request, and the drop changes the scope state of no other mock.
C4_DroppedMockIsInactive ==
    [][/\ HandleStep =>
            \A g \in DOMAIN guards :
                guards[g].dropped => last'.response.by # guards[g].notify
       /\ \A g \in LiveGuards :
            DropStep(g) =>
               \A nid \in Notifiers(mocks) \ {guards[g].notify} :
                   ScopeOf(mocks', nid) = ScopeOf(mocks, nid)]_vars

\* C6: a mock with up_to_n_times(k) never matches more than k requests, also
\* when requests are in flight at once; a mock that has matched k requests
\* matches no further request, and the request goes to the next eligible
\* mock or gets the 404 response.
CapRespected ==
    \A i \in DOMAIN mocks :
        mocks[i][1].specification.max_n_matches # None =>
            mocks[i][1].n_matched_requests
                <= mocks[i][1].specification.max_n_matches[1]

C6_UpToNTimes ==
    /\ []CapRespected
    /\ [][HandleStep =>
            LET spent == {nid \in Notifiers(mocks) :
                             Exhausted(MockOf(mocks, nid))}
            IN /\ last'.response.by \notin spent
               /\ \A nid \in spent :
                     MockOf(mocks', nid).n_matched_requests =
                         MockOf(mocks, nid).n_matched_requests
               /\ IF Eligible(mocks, last'.req) = {}
                  THEN /\ last'.response.by = 0
                       /\ last'.response.status = 404
                  ELSE last'.response.by =
                           FirstEligible(mocks, last'.req).notify]_vars

\* Two requests are in flight at once, both handled: the mock capped at one
\* match answered one of them and the other went to the next mock.
C6_Witness ==
    /\ \A h \in Handlers :
          /\ Stmt(h) \notin {"idle", "write", "handle_request"}
          /\ handlers[h].response.by # 0
    /\ \E h1, h2 \in Handlers :
          /\ handlers[h1].response.by # handlers[h2].response.by
          /\ LET m == MockOf(mocks, handlers[h1].response.by)
             IN /\ m.specification.max_n_matches = Some(1)
                /\ m.n_matched_requests = 1
                /\ Accepts(m, handlers[h2].req)
                /\ ScopeOf(mocks, m.notify) = InScope

\* C8: the handler of a request takes the write lock, obtains the response
\* and the delay, releases the lock and only then awaits the delay: no
\* handler holds the write lock while its delay is pending.
C8_NoLockAcrossDelay ==
    \A h \in Handlers :
        Stmt(h) \in {"delay", "respond"} =>
            /\ lock.writer # h
            /\ h \notin lock.readers
            /\ handlers[h].response # NoResponse

\* The delay of one request is pending while another task holds the write
\* lock.
C8_Witness ==
    \E h \in Handlers :
        /\ Stmt(h) = "delay"
        /\ lock.writer \notin {NoOne, h}

\* C9: while the delay of the response to one request is pending, an
\* operation of the test task and the matching of another request that wait
\* for the lock complete, whether or not the delay ever elapses.
Delayed(h) == Stmt(h) = "delay"

DelayPending == \E h \in Handlers : Delayed(h)

Waiting(w) == waiters[w].pc \in 1..Len(wait_until_satisfied)

C10_NoMissedWakeup ==
    \A w \in Waiters :
        (Waiting(w) /\ waiters[w].notify \in brought)
            ~> (waiters[w].pc = Returned)

\* A call read the flag before the request that satisfies the mock stored
\* it, and was woken by notify_waiters.
C10_Witness ==
    \E w \in Waiters :
        /\ WStmt(w) = "await"
        /\ waiters[w].notified = "done"
        /\ waiters[w].notify \in brought

\* The match count of the mock of a call lies in its expectation range.
InRange(nid, n) ==
    contains(MockOf(mocks, nid).specification.expectation_range, n)

\* C11: wait_until_satisfied returns, without any further request, when
\* the match count of the mock (zero included) lies in its expectation
\* range at the time of the call.
C11_ReturnsWhenAlreadySatisfied ==
    \A w \in Waiters :
        (/\ waiters[w].pc = 1
         /\ InRange(waiters[w].notify, waiters[w].n_at_call))
            ~> (waiters[w].pc = Returned)

\* A step in which the call of w returns.
ReturnStep(w) == waiters[w].pc # Returned /\ waiters'[w].pc = Returned

\* C12: wait_until_satisfied does not return before a state in which the
\* match count lies in the expectation range: when a call returns, the
\* count has been inside the range at some state since the call was made.
C12_ReturnsOnlyWhenSatisfied ==
    [][\A w \in Waiters :
         ReturnStep(w) =>
            \E n \in waiters[w].n_at_call
                       ..CountOf(mocks, waiters[w].notify) :
                InRange(waiters[w].notify, n)]_vars

\* A step that resets the server.
ResetStep == generation' # generation

\* What a test observes of a server: the mocks, the outcome of verify, the
\* answer to every request and the recorded requests.
Observed(ms, received) ==
    [mocks |-> ms,
     verify |-> MountedMockSet_verify_all(ms),
     answers |-> [request \in Requests |->
                     MountedMockSet_handle_request(ms, request).response],
     received_requests |-> received]

Cleared(received) == IF received = None THEN None ELSE Some(<<>>)

\* C13: right after reset the mock set is empty, verification returns
\* Success, every request gets 404 and, with recording enabled, the list of
\* received requests is empty; a second reset changes nothing observable.
C13_ResetClears ==
    [][ResetStep =>
         LET again == MountedMockSet_reset(mocks', generation', FALSE)
         IN /\ mocks' = <<>>
            /\ MountedMockSet_verify_all(mocks') = Success
            /\ \A request \in Requests :
                  MountedMockSet_handle_request(mocks', request).response
                      = not_found_response
            /\ received_requests # None => received_requests' = Some(<<>>)
            /\ Observed(again.mocks, Cleared(received_requests'))
                  = Observed(mocks', received_requests')]_vars

\* The server was reset after it had mounted a mock and recorded a request
\* that an error responder answered.
C13_Witness ==
    /\ generation = 1
    /\ mocks = <<>>
    /\ received_requests = Some(<<>>)
    /\ handled >= 1
    /\ Len(notifiers) >= 1
    /\ last.response.kind = "Err"

\* The guards issued before a reset: their mock has left the set.
Stale == {g \in DOMAIN guards : guards[g].notify \notin Notifiers(mocks)}

\* C14: after a reset every access through a MockId issued before it
\* (verify, deactivate, MockGuard::received_requests, the drop of the
\* guard) panics with the misuse message, also when a new mock is at the
\* same index, and the failed access leaves the mock set unchanged.
\* The formula takes the part of it that says that such an access panics
\* and never reaches a mock.
C14_StaleIdPanics ==
    /\ [](\A g \in Stale :
             \/ Index(mocks, generation, guards[g].mock_id) = "panic"
             \/ Index(mocks, generation, guards[g].mock_id)
                   = "out_of_bounds")
    /\ [][\A g \in Stale :
             DropStep(g) => /\ guards'[g].outcome
                                  \in {"misuse", "out_of_bounds"}
                            /\ mocks' = mocks]_vars

\* C15: the generation starts at 0, every reset adds exactly one to it, it
\* never takes a value it had before, and a MockId of an earlier generation
\* is never accepted again.
C15_GenerationIncreases ==
    /\ [][generation' # generation => generation' = generation + 1]_vars
    /\ [][\A g \in DOMAIN guards :
             guards[g].mock_id.generation # generation =>
                 guards[g].mock_id.generation # generation']_vars

\* The mocks in scope whose match count is outside their expectation range.
Unmet(ms) ==
    {i \in DOMAIN ms :
        /\ ms[i][2] = InScope
        /\ ~contains(ms[i][1].specification.expectation_range,
                     ms[i][1].n_matched_requests)}

\* C16: verify_all returns Success exactly when the match count of every
\* mock in scope lies in its expectation range; otherwise it returns
\* Failure with one report for each mock in scope whose count is outside
\* its range and for no other mock, in scope or out of scope.
C16_VerifyAll ==
    LET outcome == MountedMockSet_verify_all(mocks)
    IN /\ outcome = Success <=> Unmet(mocks) = {}
       /\ Unmet(mocks) # {} =>
             /\ outcome.kind = "Failure"
             /\ Len(outcome.reports) = Cardinality(Unmet(mocks))
             /\ {outcome.reports[k] : k \in DOMAIN outcome.reports}
                   = {MountedMock_verify(mocks[i][1]) : i \in Unmet(mocks)}

\* verify_all fails on a set that holds a mock in scope with an unmet
\* expectation and a mock out of scope that has answered a request.
C16_Witness ==
    /\ MountedMockSet_verify_all(mocks).kind = "Failure"
    /\ \E i, j \in DOMAIN mocks :
          /\ i \in Unmet(mocks)
          /\ mocks[j][2] = OutOfScope
          /\ mocks[j][1].n_matched_requests = 1

\* verify_all succeeds on a set that holds mocks in scope, each of which
\* has answered the one request it expects.
C16_WitnessSuccess ==
    /\ MountedMockSet_verify_all(mocks) = Success
    /\ Len(mocks) = MaxMocks
    /\ \A i \in DOMAIN mocks :
          /\ mocks[i][2] = InScope
          /\ mocks[i][1].specification.expectation_range = Exact(1)

ServerDropStep == server = "running" /\ server' # "running"

\* C17: the drop of a MockServer verifies as verify does: it panics when a
\* mock in scope has a match count outside its expectation range and the
\* thread is not unwinding, only logs when the thread is unwinding, raises
\* no panic when every mock in scope is satisfied, and changes no mock.
C17_DropVerifies ==
    [][ServerDropStep =>
          /\ server' = IF Unmet(mocks) = {} THEN "ok"
                       ELSE IF panicking THEN "logged" ELSE "panic"
          /\ panicking => server' # "panic"
          /\ panicking' = (panicking \/ server' = "panic")
          /\ ~panicking =>
                (server' = "panic") =
                    (MockServer_verify(mocks, FALSE) = "panic")
          /\ mocks' = mocks]_vars

\* A server dropped while the thread unwinds, with an unmet expectation of a
\* mock in scope: the failure was logged.
C17_Witness ==
    /\ server = "logged"
    /\ panicking
    /\ Unmet(mocks) # {}

\* C18: with recording enabled the recorded requests are the requests handled
\* since the start or the last reset, in the order of handling: a handled
\* request is appended whatever is answered (a mock's response, 404 or a
\* responder's error), a reset empties the list, and no other step touches
\* it.
C18_RecordsEveryRequest ==
    [][received_requests # None =>
          /\ HandleStep =>
                received_requests' =
                    Some(Append(received_requests[1], last'.req))
          /\ ResetStep => received_requests' = Some(<<>>)
          /\ ~HandleStep /\ ~ResetStep =>
                received_requests' = received_requests]_vars

\* After a reset two different requests were handled, the second answered
\* by no mock's response: both are recorded, in that order.
C18_Witness ==
    /\ generation = 1
    /\ received_requests # None
    /\ Len(received_requests[1]) = 2
    /\ received_requests[1][1] # received_requests[1][2]
    /\ received_requests[1][2] = last.req
    /\ last.response.by = 0

\* C19: a server built with request recording disabled never records: its
\* received_requests is None after every step, handled requests and resets
\* included.
C19_DisabledStaysDisabled ==
    [][received_requests = None => received_requests' = None]_vars

\* A server without recording that was reset and has since answered a
\* request with a mock's response.
C19_Witness ==
    /\ received_requests = None
    /\ generation = 1
    /\ \E i \in DOMAIN wins : wins[i] > 0

\* C20: received_requests of a guard that is held returns the requests that
\* the guard's own mock answered, in the order in which it answered them:
\* as many as the match count of that mock, and none that another mock
\* answered.
C20_GuardReceivedRequests ==
    \A g \in LiveGuards :
        ~guards[g].dropped =>
            LET own == MockOf(mocks, guards[g].notify)
                got == MockGuard_received_requests(mocks, generation,
                                                   guards[g])
            IN /\ got = own.matched_requests
               /\ Len(got) = own.n_matched_requests

\* C21: two tests that hold a MockServer at the same time hold different
\* servers, and a call made by one of them (start, register, a request,
\* reset, the drop of a guard or of the server) leaves the mocks, the
\* counters, the scope states and the recorded requests of the server the
\* other holds as they were.
C21_ServersAreIsolated ==
    [][/\ \A t1, t2 \in Borrowers :
             (t1 # t2 /\ pool'.handle[t1] # 0) =>
                 pool'.handle[t1] # pool'.handle[t2]
       /\ \A t \in Borrowers :
             (/\ pool.handle[t] # 0
              /\ pool'.handle[t] = pool.handle[t]
              /\ pool' # pool
              /\ pool'.acted.by # t) =>
                 pool'.servers[pool.handle[t]] = pool.servers[pool.handle[t]]
      ]_vars

\* Both tests hold a server, that of t2 held a mock that answered a request
\* and t1 has just made a call on its own, which was used and recycled
\* before.
C21_Witness ==
    /\ pool.handle["t1"] # 0
    /\ pool.handle["t2"] # 0
    /\ pool.acted = Acted("t1", pool.handle["t1"])
    /\ pool.servers[pool.handle["t1"]].generation >= 1
    /\ pool.servers[pool.handle["t1"]].mocks # <<>>
    /\ \E i \in DOMAIN pool.servers[pool.handle["t2"]].mocks :
          pool.servers[pool.handle["t2"]].mocks[i][1].n_matched_requests = 1

\* A step in which MockServer::start hands a server to the test t.
HandedOut(t) == pool.handle[t] = 0 /\ pool'.handle[t] # 0

Strip(ms) ==
    [i \in DOMAIN ms |-> <<[ms[i][1] EXCEPT !.notify = 0], ms[i][2]>>]

\* What a test observes of a server: the outcome of verify, the answer to
\* every request and the recorded requests.
Observable(s) ==
    [mocks |-> Strip(s.mocks),
     verify |-> MountedMockSet_verify_all(s.mocks),
     answers |-> [request \in Requests |->
                     [MountedMockSet_handle_request(s.mocks, request).response
                          EXCEPT !.by = IF @ = 0 THEN 0 ELSE 1]],
     received_requests |-> s.received_requests]

ErrWins ==
    /\ HandleStep
    /\ Eligible(mocks, last'.req) # {}
    /\ FirstEligible(mocks, last'.req).specification.response.kind = "Err"

\* C24: when the winning mock was built with respond_with_err,
\* handle_request returns the error: no status, no body and no delay.  The
\* request is recorded, the winning mock counts and keeps the request, and
\* no other mock is touched.
C24_ErrorResponder ==
    [][ErrWins =>
          LET m == FirstEligible(mocks, last'.req)
              after == MockOf(mocks', m.notify)
          IN /\ last'.response =
                    [kind |-> "Err", status |-> 0, body |-> "",
                     by |-> m.notify]
             /\ last'.delay = None
             /\ received_requests # None =>
                    received_requests' =
                        Some(Append(received_requests[1], last'.req))
             /\ after.n_matched_requests = m.n_matched_requests + 1
             /\ after.matched_requests =
                    Append(m.matched_requests, last'.req)
             /\ \A nid \in Notifiers(mocks) \ {m.notify} :
                    MockOf(mocks', nid) = MockOf(mocks, nid)]_vars

\* An error answered the last request although a second mock, which has
\* matched nothing, accepts that request too.
C24_Witness ==
    /\ last.response.kind = "Err"
    /\ received_requests # None
    /\ received_requests[1] # <<>>
    /\ \E i, j \in DOMAIN mocks :
          /\ mocks[i][1].notify = last.response.by
          /\ mocks[i][1].n_matched_requests >= 1
          /\ i # j
          /\ Accepts(mocks[j][1], last.req)
          /\ mocks[j][2] = InScope
          /\ mocks[j][1].n_matched_requests = 0

\* C25: the events of one request come in the order: recorded and matched
\* while its handler holds the write lock, lock released, delay elapsed,
\* response written.  The response of a template with a delay is written
\* only after the delay has elapsed, and a response without delay is
\* written without any wait.
C25_DelayThenResponse ==
    [][\A h \in Handlers :
          /\ (Stmt(h) = "handle_request" /\ handlers'[h] # handlers[h]) =>
                 /\ lock.writer = h
                 /\ lock'.writer = h
                 /\ HandleStep
                 /\ received_requests' =
                        Some(Append(received_requests[1], handlers[h].req))
          /\ (Stmt(h) = "delay" /\ handlers'[h] # handlers[h]) =>
                 /\ lock.writer # h
                 /\ handlers[h].delay # None
                 /\ handlers[h].response # NoResponse
          /\ (Stmt(h) = "respond" /\ handlers'[h] # handlers[h]) =>
                 /\ lock.writer # h
                 /\ handlers[h].response # NoResponse
                 /\ handlers[h].slept = (handlers[h].delay # None)]_vars

\* One response is about to be written after its delay has elapsed, another
\* without delay and without a wait.
C25_Witness ==
    \E h, other \in Handlers :
        /\ Stmt(h) = "respond"
        /\ handlers[h].delay # None
        /\ handlers[h].slept
        /\ Stmt(other) = "respond"
        /\ handlers[other].delay = None
        /\ ~handlers[other].slept

\* The tasks of the connections end once the server is dropped.
C26_TasksEnd ==
    \A c \in {Conns[i] : i \in DOMAIN Conns} :
        (SenderDropped /\ net.conns[c] # "none") ~> (net.conns[c] = "none")

\* The shutdown signal stops the accept loop of a dropped server only.
C26_StopsOnlyWhenDropped == [](net.cause = "shutdown" => SenderDropped)

\* C26: once the server is dropped the accept loop eventually stops and
\* every task of a connection eventually ends, also when clients keep
\* connecting; while the server is alive the shutdown signal never stops
\* the accept loop.
C26_GracefulShutdown ==
    /\ SenderDropped ~> (net.accept = "stopped")
    /\ C26_TasksEnd
    /\ C26_StopsOnlyWhenDropped

\* The mocks in scope with an unmet expectation, in the order of the set.
IsUnmet(e) ==
    /\ e[2] = InScope
    /\ ~contains(e[1].specification.expectation_range,
                 e[1].n_matched_requests)

\* The number of mocks registered since the last reset before the mock m:
\* notifiers are created in the order of registration.
RegisteredBefore(ms, m) ==
    Cardinality({nid \in Notifiers(ms) : nid < m.notify})

\* The line e of the message is the line of the mock m.
LineOf(e, ms, m) ==
    /\ e.text = "- {}\n"
    /\ LET line == e.args[1]
       IN /\ IF m.specification.name # None
             THEN /\ line.text = NamedFormat
                  /\ line.args[1] = m.specification.name[1]
             ELSE /\ line.text = UnnamedFormat
                  /\ line.args[1] = RegisteredBefore(ms, m)
          /\ line.args[2] = Times_fmt(m.specification.expectation_range)
          /\ line.args[3] = m.n_matched_requests

FirstSatisfiedAt(m, n) ==
    /\ contains(m.specification.expectation_range, n)
    /\ \A k \in 0 .. (n - 1) :
          ~contains(m.specification.expectation_range, k)

\* The satisfaction flag of a mock, once set, is never cleared.
C28_FlagNeverCleared ==
    [][\A nid \in DOMAIN notifiers :
          notifiers[nid].flag => notifiers'[nid].flag]_vars

\* C28: the flag of a mock is stored and its waiters are woken only by the
\* match at which the range contains the count for the first time: later
\* matches of the mock do not raise the notification again, and the flag
\* is never cleared.
C28_NotifiedOnlyOnce ==
    /\ [][\A nid \in DOMAIN notifiers :
             \A h \in Handlers :
                (/\ Stmt(h) \in {"store", "notify_waiters"}
                 /\ handlers[h].satisfied = nid
                 /\ handlers'[h].pc # handlers[h].pc)
                => \A i \in DOMAIN mocks :
                      mocks[i][1].notify = nid
                      => FirstSatisfiedAt(mocks[i][1],
                                          mocks[i][1].n_matched_requests)]_vars
    /\ C28_FlagNeverCleared

\* The drop of a guard has begun and not returned.
Dropping == test.op = "drop" /\ test.pc # "idle"

\* Every drop of a guard returns, by its end or by a panic, and leaves the
\* lock free of the test task; a request that waits for the lock is served.
C29_FreeAfterDrop ==
    /\ Dropping ~> (test.pc = "idle" /\ lock.writer # "t")
    /\ [](test.pc = "idle" =>
            lock.writer # "t" /\ "t" \notin lock.readers)
    /\ \A h \in Handlers : (Stmt(h) = "write") ~> (Stmt(h) # "write")

\* C29: the drop of a guard has released the state lock when it raises its
\* panic.
C29_ReleasedBeforePanic ==
    test.pc = "panicked" => lock.writer # "t"

\* The first matcher of the list that rejects the request, or the length of
\* the list when none does.
LastAsked(matchers, request) ==
    IF \A i \in DOMAIN matchers : request \in matchers[i]
    THEN Len(matchers)
    ELSE CHOOSE i \in DOMAIN matchers :
            /\ request \notin matchers[i]
            /\ \A j \in 1 .. (i - 1) : request \in matchers[j]

\* C30: for every mounted mock and every request, matches is true exactly
\* when the mock is not at its cap and all its matchers accept the request;
\* at the cap it asks no matcher, else it asks the matchers in the order of
\* their declaration up to the first that rejects; when it is false the
\* mock is unchanged and no notification is raised, when it is true the
\* count and the recorded matches grow by this request.
C30_Matches ==
    \A i \in DOMAIN mocks : \A request \in Requests :
       LET m == mocks[i][1]
           matchers == m.specification.matchers
           r == MountedMock_matches(m, request)
       IN /\ r.matched <=>
                (/\ ~AtMax(m)
                 /\ \A k \in DOMAIN matchers : request \in matchers[k])
          /\ AtMax(m) => r.evaluated = <<>>
          /\ ~AtMax(m) =>
                r.evaluated = [k \in 1 .. LastAsked(matchers, request) |-> k]
          /\ ~r.matched => r.mock = m /\ ~r.satisfied
          /\ r.matched =>
                /\ r.mock.n_matched_requests = m.n_matched_requests + 1
                /\ r.mock.matched_requests =
                      Append(m.matched_requests, request)
                /\ r.mock.specification = m.specification
                /\ r.mock.notify = m.notify

\* Two requests were handled: one mock has reached its cap, and another
\* mock, whose first matcher rejects request "b", has matched as well.
C30_Witness ==
    /\ handled = 2
    /\ \E i, j \in DOMAIN mocks :
          /\ AtMax(mocks[i][1])
          /\ mocks[i][1].n_matched_requests = 1
          /\ mocks[j][1].specification.matchers[1] = {"a"}
          /\ mocks[j][1].n_matched_requests = 1
          /\ i # j

\* The entries in scope among the first n of the vector, in its order.
RECURSIVE InScopeUpTo(_, _)
InScopeUpTo(ms, n) ==
    IF n = 0 THEN <<>>
    ELSE IF ms[n][2] = InScope THEN Append(InScopeUpTo(ms, n - 1), n)
    ELSE InScopeUpTo(ms, n - 1)

\* C31: a request is handled by asking the mocks in scope in the order of
\* the sorted vector up to the first that matches and none after it; the
\* step adds the request to the recording, adds one match to the winner
\* and may raise the winner's notification, and leaves every other mock,
\* every scope state, the length of the set and its generation as they
\* were.
C31_StopsAtFirstMatch ==
    [][HandleStep =>
        LET request == last'.req
            sorted == sort_by_key(mocks)
            s == Scan(sorted, 1, request)
            w == last'.response.by
        IN /\ s.asked = InScopeUpTo(sorted, IF s.winner = 0 THEN Len(sorted)
                                             ELSE s.winner)
           /\ (w = 0) <=> (s.winner = 0)
           /\ w # 0 => sorted[s.winner][1].notify = w
           /\ Len(mocks') = Len(mocks)
           /\ generation' = generation
           /\ Notifiers(mocks') = Notifiers(mocks)
           /\ \A i \in DOMAIN mocks' : mocks'[i] = sort_by_key(mocks')[i]
           /\ \A nid \in Notifiers(mocks) :
                 /\ ScopeOf(mocks', nid) = ScopeOf(mocks, nid)
                 /\ nid # w =>
                       /\ MockOf(mocks', nid) = MockOf(mocks, nid)
                       /\ notifiers'[nid] = notifiers[nid]
                 /\ nid = w =>
                       MockOf(mocks', nid) =
                          [MockOf(mocks, nid) EXCEPT
                              !.n_matched_requests = @ + 1,
                              !.matched_requests = Append(@, request)]
           /\ received_requests' =
                 Some(Append(received_requests[1], request))
           /\ guards' = guards]_vars

\* A request was answered by a mock that is followed in the vector by
\* another mock in scope that accepts the request too, and the latter has
\* no match.
C31_Witness ==
    /\ handled >= 1
    /\ last.response.by # 0
    /\ \E i, j \in DOMAIN mocks :
          /\ i < j
          /\ mocks[i][1].notify = last.response.by
          /\ mocks[j][2] = InScope
          /\ Accepts(mocks[j][1], last.req)
          /\ ~Exhausted(mocks[j][1])
          /\ mocks[j][1].n_matched_requests = 0

\* The ids of the current generation that denote an entry of the vector.
ValidIds ==
    {[index |-> i - 1, generation |-> generation] : i \in DOMAIN mocks}

\* C32: deactivate marks the entry at the index of the id OutOfScope and
\* changes nothing else: the vector keeps its length, every entry keeps
\* its mock with its counter, every other entry keeps its scope state, and
\* every other id of the generation denotes the entry it denoted.
C32_DeactivateFrame ==
    \A id \in ValidIds :
       LET after == MountedMockSet_deactivate(mocks, id)
       IN /\ Len(after) = Len(mocks)
          /\ Index(after, generation, id)[2] = OutOfScope
          /\ \A i \in DOMAIN mocks :
                /\ after[i][1] = mocks[i][1]
                /\ i # id.index + 1 => after[i][2] = mocks[i][2]
          /\ \A other \in ValidIds \ {id} :
                Index(after, generation, other) =
                   Index(mocks, generation, other)

\* The guard of the first of two mocks was dropped with its expectation met
\* and its entry deactivated, after the mock had matched; the second mock
\* is in scope and its guard is alive.
C32_Witness ==
    /\ Len(mocks) = 2
    /\ Len(guards) = 2
    /\ guards[1].dropped /\ guards[1].outcome = "ok"
    /\ ~guards[2].dropped
    /\ \E i \in DOMAIN mocks :
          /\ mocks[i][2] = OutOfScope
          /\ mocks[i][1].n_matched_requests >= 1
    /\ \E i \in DOMAIN mocks : mocks[i][2] = InScope

\* The counts that an expectation admits, among the counts 0..top.
Admitted(t, top) ==
    CASE t.kind = "Exact" -> {t.a} \cap (0 .. top)
      [] t.kind = "Unbounded" -> 0 .. top
      [] t.kind = "Range" -> t.a .. (t.b - 1)
      [] t.kind = "RangeInclusive" -> t.a .. t.b
      [] t.kind = "RangeFrom" -> t.a .. top
      [] t.kind = "RangeTo" -> 0 .. (t.b - 1)
      [] t.kind = "RangeToInclusive" -> 0 .. t.b

\* C33: the report of a mounted mock is satisfied exactly when its count
\* lies in its expectation range, whatever the shape of the range and
\* whatever the count, and a mock built without expect is satisfied at every
\* count.
C33_SatisfiedIffInRange ==
    \A i \in DOMAIN mocks : \A n \in 0 .. (MaxRequests + 2) :
       LET m == mocks[i][1]
           t == m.specification.expectation_range
           at == [MountedMock_verify(m) EXCEPT !.n_matched_requests = n]
       IN /\ is_satisfied(at) <=> n \in Admitted(t, MaxRequests + 2)
          /\ is_satisfied(MountedMock_verify(m)) <=>
                m.n_matched_requests \in Admitted(t, MaxRequests + 2)
          /\ m.specification = WithoutExpect => is_satisfied(at)

\* A mock that expects one or two matches has matched twice beside a mock
\* built without expect.
C33_Witness ==
    /\ handled = 2
    /\ \E i, j \in DOMAIN mocks :
          /\ mocks[i][1].specification.expectation_range =
                RangeInclusive(1, 2)
          /\ mocks[i][1].n_matched_requests = 2
          /\ is_satisfied(MountedMock_verify(mocks[i][1]))
          /\ mocks[j][1].specification = WithoutExpect

\* The body and the Content-Type that belong to a call of set_body_*.
BodyOf(call) ==
    CASE call.fn = "set_body_json" -> to_vec(call.body)
      [] call.fn = "set_body_string" -> into_bytes(call.body)
      [] OTHER -> call.body

ContentTypeOf(call) ==
    CASE call.fn = "set_body_bytes" -> "application/octet-stream"
      [] call.fn = "set_body_string" -> "text/plain"
      [] call.fn = "set_body_json" -> "application/json"
      [] call.fn = "set_body_raw" -> call.mime

\* The response generated from the template carries the body of the last
\* call of set_body_*.
C34_LastBody ==
    template.calls # <<>> =>
       ResponseTemplate_generate_response(template.built).body =
          Some(BodyOf(template.calls[Len(template.calls)]))

\* C34: after any sequence of set_body_* calls the response generated from
\* the template carries the body of the last call and the Content-Type
\* that belongs to the last call.
C34_LastBodyAndContentType ==
    template.calls # <<>> =>
       LET response == ResponseTemplate_generate_response(template.built)
           call == template.calls[Len(template.calls)]
       IN /\ response.body = Some(BodyOf(call))
          /\ response.content_type = Some(ContentTypeOf(call))

\* The drop of a guard verifies and deactivates one entry in one critical
\* section: from the verification to the deactivation the test task holds
\* the write lock, no request is handled, the report of the entry stays
\* satisfied, and the entry that is deactivated never matches again.
C35_OneCriticalSection ==
    /\ [](test.pc = "deactivate" =>
            /\ lock.writer = "t"
            /\ is_satisfied(MountedMockSet_verify(mocks, generation,
                                guards[test.guard].mock_id)))
    /\ [][(test.pc = "deactivate" /\ test'.pc = "deactivate")
            => mocks' = mocks]_vars
    /\ [][\A nid \in Notifiers(mocks) :
             ScopeOf(mocks, nid) = OutOfScope
             => MockOf(mocks', nid) = MockOf(mocks, nid)]_vars

\* C35: when the drop of a guard has found its expectation satisfied, the
\* count of the guard's mock is final: no request is matched by that mock
\* from then on, whatever the interleaving with the request handlers.
C35_VerifiedCountIsFinal ==
    [][\A g \in DOMAIN guards :
          (guards[g].dropped /\ guards[g].outcome = "ok")
          => MockOf(mocks', guards[g].notify).n_matched_requests =
                MockOf(mocks, guards[g].notify).n_matched_requests]_vars

\* A drop waits for the lock, which it cannot be given, while the lock is
\* held by the second task of its thread, which is not polled before the
\* drop ends.
Deadlocked ==
    /\ ThreadBlocked
    /\ test.pc = "waiting"
    /\ \E op \in Spawned : lock.writer = op \/ op \in lock.readers
    /\ ~Granted("t", IF test.op = "drop_server" THEN "read" ELSE "write")

\* Every drop that has begun acquires the lock and ends.
C36_DropsTerminate == ThreadBlocked ~> (test.pc = "idle")

\* C36: the drop of a guard and the drop of the server never wait for the
\* lock behind a task that cannot run before they end.
C36_NoDeadlock == ~Deadlocked

(***************************************************************************)
(* Requests of a previous borrower.                                        *)
(***************************************************************************)
\* The step handles the request sent.
Serves(sent) ==
    /\ sent \in pool.wire
    /\ pool'.wire = pool.wire \ {sent}
    /\ pool'.handled = pool.handled + 1

\* The test that sent the request has released the server it was sent to
\* and another test holds that server.
FromPreviousBorrower(sent) ==
    /\ pool.handle[sent.by] # sent.server
    /\ \E t \in Borrowers \ {sent.by} : pool.handle[t] = sent.server

MatchCounts(ms) ==
    [nid \in Notifiers(ms) |-> MockOf(ms, nid).n_matched_requests]

\* C37: once a pooled server has been released and handed to a new
\* borrower, handling a request that a client of the previous borrower sent
\* leaves the recorded requests of the server and the match counts of its
\* mocks as they were.
C37_PreviousBorrowerLeavesNoTrace ==
    [][\A sent \in pool.wire :
          Serves(sent) /\ FromPreviousBorrower(sent) =>
              /\ pool'.servers[sent.server].received_requests =
                     pool.servers[sent.server].received_requests
              /\ MatchCounts(pool'.servers[sent.server].mocks) =
                     MatchCounts(pool.servers[sent.server].mocks)]_vars

(***************************************************************************)
(* The recorded requests against the match counts.                         *)
(***************************************************************************)
RECURSIVE SumOf(_, _)
SumOf(f, n) == IF n = 0 THEN 0 ELSE f[n] + SumOf(f, n - 1)

\* The sum of the match counts of the mocks of the set, whatever their scope.
SumOfMatchCounts ==
    SumOf([i \in DOMAIN mocks |-> mocks[i][1].n_matched_requests],
          Len(mocks))

\* The requests that no mock answered: handle_request answered them 404.
NotFoundAnswers == handled - SumOf(wins, Len(wins))

\* C38: on a server that records requests and has not been reset, the number
\* of recorded requests is the sum of the match counts of all mocks, in
\* scope or out of scope, plus the number of requests answered 404.
C38_RecordedIsMatchedPlusNotFound ==
    received_requests # None =>
        Len(received_requests[1]) = SumOfMatchCounts + NotFoundAnswers

\* A mock that went out of scope after it matched a request, and a request
\* answered 404 after that.
C38_Witness ==
    /\ received_requests # None
    /\ \E i \in DOMAIN mocks :
          /\ mocks[i][2] = OutOfScope
          /\ mocks[i][1].n_matched_requests >= 1
    /\ NotFoundAnswers >= 1
    /\ last.response = not_found_response
    /\ Len(received_requests[1]) = 2

=============================================================================
